---- MODULE Spec2Model ----
(***************************************************************************)
(* Model of the stead control plane: the contract lifecycle engine         *)
(* (stead-contracts), the SQLite contract store, the resource registry     *)
(* (stead-resources) and the daemon API layer with its event bus           *)
(* (stead-daemon).                                                         *)
(*                                                                         *)
(* Four specifications share the variables:                                *)
(*   Spec          the daemon: concurrent request handlers and the event   *)
(*                 bus;                                                    *)
(*   SpecStream    the same with one reconnecting event-stream client;     *)
(*   SpecStore     a direct user of SqliteContractStore (as the store's    *)
(*                 tests are), calling record_transition with arbitrary    *)
(*                 contract / event pairs;                                 *)
(*   SpecLifecycle the pure lifecycle functions applied to every input.    *)
(***************************************************************************)
EXTENDS Integers, Sequences, FiniteSets, TLC

(***************************************************************************)
(* Bounds and input domains                                                *)
(***************************************************************************)
\* Number of API requests the daemon accepts in one run.
MaxRequests == 3
\* The same, in runs that also follow an event-stream client.
MaxStreamRequests == 2
\* events published on the bus taken on its own
MaxPublishes == 3
\* requests served while the attention counts are taken
MaxAttentionRequests == 2
\* requests a caller of a given actor kind sends
MaxActorRequests == 2
\* Number of store / contract calls the direct store user makes in one run.
MaxStoreOps == 6
\* Number of calls made on a free-standing ResourceRegistry / EndpointRegistry.
MaxRegistryOps == 4
MaxEndpointOps == 3
\* Number of claims fed to a pair of fresh registries.
MaxTwinClaims == 4

Ids == {"c1", "c2"}
BlockedBys == {<< >>, <<"c1">>}
Threads == {"t1", "t2"}
ThreadNo(t) == IF t = "t1" THEN 1 ELSE 2
Owners == {"a", "b"}

\* Daemon::with_port_range(path, start, end)
PortStart == 3000
PortEnd == 3001
Ports == PortStart..PortEnd

\* EndpointRegistry::with_port_range(start, end)
EndpointStart == 4100
EndpointEnd == 4101
EndpointNames == {"alpha", "bravo", "charlie"}

(***************************************************************************)
(* Option values: None is the empty sequence, Some(x) a one-element one    *)
(***************************************************************************)
None == << >>
Some(x) == <<x>>
IsSome(o) == Len(o) > 0
Unwrap(o) == o[1]

Range(s) == {s[i] : i \in DOMAIN s}

(***************************************************************************)
(* stead-contracts: ContractStatus                                         *)
(***************************************************************************)
ContractStatus ==
    {"Pending", "Ready", "Claimed", "Executing", "Verifying", "Completed",
     "Failed", "RollingBack", "RolledBack", "Cancelled"}

valid_transitions_cancel_from_verifying(self) ==
    CASE self = "Pending"     -> <<"Ready", "Cancelled">>
      [] self = "Ready"       -> <<"Claimed", "Cancelled">>
      [] self = "Claimed"     -> <<"Executing", "Ready", "Cancelled">>
      [] self = "Executing"   -> <<"Verifying", "Failed", "Cancelled">>
      [] self = "Verifying"   -> <<"Completed", "Failed", "Cancelled">>
      [] self = "Completed"   -> << >>
      [] self = "Failed"      -> <<"Ready", "RollingBack", "Cancelled">>
      [] self = "RollingBack" -> <<"RolledBack", "Failed">>
      [] self = "RolledBack"  -> << >>
      [] self = "Cancelled"   -> << >>

valid_transitions(self) ==
    CASE self = "Pending"     -> <<"Ready", "Cancelled">>
      [] self = "Ready"       -> <<"Claimed", "Cancelled">>
      [] self = "Claimed"     -> <<"Executing", "Ready", "Cancelled">>
      [] self = "Executing"   -> <<"Verifying", "Failed", "Cancelled">>
      [] self = "Verifying"   -> <<"Completed", "Failed">>
      [] self = "Completed"   -> << >>
      [] self = "Failed"      -> <<"Ready", "RollingBack", "Cancelled">>
      [] self = "RollingBack" -> <<"RolledBack", "Failed">>
      [] self = "RolledBack"  -> << >>
      [] self = "Cancelled"   -> << >>

can_transition_to(self, target) ==
    \E i \in DOMAIN valid_transitions(self) : valid_transitions(self)[i] = target

\* ContractStatus::transition_to: Ok(target) or Err(TransitionError{from, to})
status_transition_to(self, target) ==
    IF can_transition_to(self, target)
    THEN [ok |-> TRUE, to |-> target, from |-> self]
    ELSE [ok |-> FALSE, to |-> target, from |-> self]

as_db_str(self) ==
    CASE self = "Pending"     -> "pending"
      [] self = "Ready"       -> "ready"
      [] self = "Claimed"     -> "claimed"
      [] self = "Executing"   -> "executing"
      [] self = "Verifying"   -> "verifying"
      [] self = "Completed"   -> "completed"
      [] self = "Failed"      -> "failed"
      [] self = "RollingBack" -> "rolling_back"
      [] self = "RolledBack"  -> "rolled_back"
      [] self = "Cancelled"   -> "cancelled"

\* Option<ContractStatus>
from_db_str(value) ==
    CASE value = "pending"      -> Some("Pending")
      [] value = "ready"        -> Some("Ready")
      [] value = "claimed"      -> Some("Claimed")
      [] value = "executing"    -> Some("Executing")
      [] value = "verifying"    -> Some("Verifying")
      [] value = "completed"    -> Some("Completed")
      [] value = "failed"       -> Some("Failed")
      [] value = "rolling_back" -> Some("RollingBack")
      [] value = "rolled_back"  -> Some("RolledBack")
      [] value = "cancelled"    -> Some("Cancelled")
      [] OTHER                  -> None

(***************************************************************************)
(* stead-contracts: Actor, TransitionAction                                *)
(***************************************************************************)
Actors == {"System", "Agent", "Human"}

TransitionActions ==
    {"DepsMet", "Claim", "Unclaim", "Start", "Verify", "Pass", "Fail",
     "Rollback", "RollbackDone", "Cancel"}

is_allowed_for_cancel_by_agent(self, actor) ==
    \/ self = "DepsMet" /\ actor = "System"
    \/ self \in {"Claim", "Unclaim", "Start", "Verify", "Rollback"}
          /\ actor \in {"Agent", "Human"}
    \/ self \in {"Pass", "Fail", "RollbackDone"} /\ actor = "System"
    \/ self = "Cancel" /\ actor \in {"Agent", "Human"}

\* TransitionAction::is_allowed_for: matches!((self, actor), ...)
is_allowed_for(self, actor) ==
    \/ self = "DepsMet" /\ actor = "System"
    \/ self \in {"Claim", "Unclaim", "Start", "Verify", "Rollback"}
          /\ actor \in {"Agent", "Human"}
    \/ self \in {"Pass", "Fail", "RollbackDone"} /\ actor = "System"
    \/ self = "Cancel" /\ actor = "Human"

(***************************************************************************)
(* stead-contracts: Contract                                               *)
(***************************************************************************)
contract_new_always_ready(id, blocked_by) ==
    [id |-> id, status |-> "Ready", blocked_by |-> blocked_by]

\* Contract::new
ContractNew(id, blocked_by) ==
    [id |-> id,
     status |-> IF blocked_by = << >> THEN "Ready" ELSE "Pending",
     blocked_by |-> blocked_by]

\* Contract::transition_to: on Ok the contract with its status moved and the
\* ContractEvent; on Err the contract as it was.
contract_transition_to(self, target) ==
    LET r == status_transition_to(self.status, target) IN
    IF r.ok
    THEN [ok |-> TRUE,
          contract |-> [self EXCEPT !.status = r.to],
          event |-> Some([contract_id |-> self.id, from |-> self.status, to |-> r.to])]
    ELSE [ok |-> FALSE, contract |-> self, event |-> None]

\* Contract::finish_verification
finish_verification(self, passed) ==
    LET target == IF passed THEN "Completed" ELSE "Failed" IN
    contract_transition_to(self, target)

cancel_unchecked(self) ==
    [ok |-> TRUE,
     contract |-> [self EXCEPT !.status = "Cancelled"],
     event |-> Some([contract_id |-> self.id, from |-> self.status, to |-> "Cancelled"])]

\* Contract::cancel
cancel(self) == contract_transition_to(self, "Cancelled")

(***************************************************************************)
(* stead-contracts: SqliteContractStore                                    *)
(*                                                                         *)
(* A database state db is [contracts, contract_events]: contracts maps the *)
(* ids that have a row to [status, blocked_by] (both TEXT columns), and    *)
(* contract_events is the table in AUTOINCREMENT id order.                 *)
(***************************************************************************)
\* serde_json::to_string(&Vec<String>) / serde_json::from_str: the text of a
\* JSON array, kept as its list of element tokens between the brackets.
to_json(blocked_by) ==
    <<(<<"[">>)>> \o [i \in DOMAIN blocked_by |-> <<"str", blocked_by[i]>>] \o <<(<<"]">>)>>

from_json(text) ==
    IF Len(text) >= 2 /\ text[1] = <<"[">> /\ text[Len(text)] = <<"]">>
    THEN Some([i \in 1..(Len(text) - 2) |-> text[i + 1][2]])
    ELSE None

\* Outcomes of the environment for one write: the statement runs, the event
\* INSERT is rejected, or the COMMIT fails.
Faults == {"none", "insert", "commit"}

EmptyDb == [contracts |-> << >>, contract_events |-> << >>, decision_items |-> << >>]

HasRow(db, id) == id \in DOMAIN db.contracts

Upsert(rows, id, row) ==
    [i \in (DOMAIN rows) \cup {id} |-> IF i = id THEN row ELSE rows[i]]

\* save_contract: INSERT ... ON CONFLICT(id) DO UPDATE SET status, blocked_by
save_contract(db, contract) ==
    [db EXCEPT !.contracts =
        Upsert(db.contracts, contract.id,
               [status |-> as_db_str(contract.status),
                blocked_by |-> to_json(contract.blocked_by)])]

\* contract_from_row / the row closure of load_contract
contract_from_row(id, row) ==
    LET status == from_db_str(row.status)
        blocked_by == from_json(row.blocked_by)
    IN IF IsSome(status) /\ IsSome(blocked_by)
       THEN Some([id |-> id, status |-> Unwrap(status), blocked_by |-> Unwrap(blocked_by)])
       ELSE None

load_contract_or_default(db, id) ==
    IF HasRow(db, id) THEN contract_from_row(id, db.contracts[id])
    ELSE Some(ContractNew(id, << >>))

\* load_contract: Option<Contract>
load_contract(db, id) ==
    IF HasRow(db, id) THEN contract_from_row(id, db.contracts[id]) ELSE None

\* A Transaction dropped without commit rolls back: the database is as it
\* was when the transaction began.
rollback_keeping_writes(db, tx) == tx

rollback_on_drop(db, tx) == db

\* record_transition(contract, event) under environment outcome fault
record_transition(db, contract, event, fault) ==
    IF contract.id # event.contract_id
    THEN [ok |-> FALSE, err |-> "InvalidQuery", db |-> db]
    ELSE
      LET blocked_by == to_json(contract.blocked_by)
          updated == IF HasRow(db, contract.id) THEN 1 ELSE 0
          tx1 == IF updated = 1
                 THEN [db EXCEPT !.contracts[contract.id] =
                          [status |-> as_db_str(contract.status),
                           blocked_by |-> blocked_by]]
                 ELSE db
          fk_ok == HasRow(tx1, event.contract_id)
          tx2 == [tx1 EXCEPT !.contract_events =
                     Append(@, [contract_id |-> event.contract_id,
                                from_status |-> as_db_str(event.from),
                                to_status |-> as_db_str(event.to),
                                blocked_by_snapshot |-> blocked_by])]
      IN IF updated = 0
         THEN [ok |-> FALSE, err |-> "QueryReturnedNoRows", db |-> rollback_on_drop(db, tx1)]
         ELSE IF ~fk_ok \/ fault = "insert"
         THEN [ok |-> FALSE, err |-> "SqliteFailure", db |-> rollback_on_drop(db, tx1)]
         ELSE IF fault = "commit"
         THEN [ok |-> FALSE, err |-> "SqliteFailure", db |-> rollback_on_drop(db, tx2)]
         ELSE [ok |-> TRUE, err |-> "", db |-> tx2]

EventRowsOf(db, contract_id) ==
    SelectSeq(db.contract_events, LAMBDA r : r.contract_id = contract_id)

list_events_of_every_contract(db, contract_id) ==
    [i \in DOMAIN db.contract_events |->
        [contract_id |-> db.contract_events[i].contract_id,
         from |-> Unwrap(from_db_str(db.contract_events[i].from_status)),
         to |-> Unwrap(from_db_str(db.contract_events[i].to_status))]]

\* list_events: the ContractEvents of one contract, ORDER BY id ASC
list_events(db, contract_id) ==
    LET rows == EventRowsOf(db, contract_id) IN
    [i \in DOMAIN rows |->
        [contract_id |-> rows[i].contract_id,
         from |-> Unwrap(from_db_str(rows[i].from_status)),
         to |-> Unwrap(from_db_str(rows[i].to_status))]]

RECURSIVE ApplyEvents(_, _)
\* the loop `for (_, to, blocked_by) in events` of rebuild_contract_from_events
ApplyEvents(rebuilt, events) ==
    IF events = << >> THEN rebuilt
    ELSE ApplyEvents([rebuilt EXCEPT !.status = Unwrap(from_db_str(events[1].to_status)),
                                     !.blocked_by = Unwrap(from_json(events[1].blocked_by_snapshot))],
                     Tail(events))

\* rebuild_contract_from_events: Option<Contract>
rebuild_contract_from_events(db, id) ==
    LET snapshot == load_contract(db, id)
        events == EventRowsOf(db, id)
    IN IF events = << >> THEN snapshot
       ELSE
         LET rebuilt == IF IsSome(snapshot) THEN Unwrap(snapshot) ELSE ContractNew(id, << >>)
             seeded == [rebuilt EXCEPT !.status = Unwrap(from_db_str(events[1].from_status)),
                                       !.blocked_by = Unwrap(from_json(events[1].blocked_by_snapshot))]
         IN Some(ApplyEvents(seeded, events))

\* create_decision: INSERT INTO decision_items ... VALUES (?1, ?2, 0), rejected
\* by the foreign key when the contract has no row
create_decision(db, contract_id, summary) ==
    IF HasRow(db, contract_id)
    THEN [ok |-> TRUE,
          db |-> [db EXCEPT !.decision_items =
                     Append(@, [contract_id |-> contract_id, summary |-> summary,
                                resolved |-> 0])]]
    ELSE [ok |-> FALSE, db |-> db]

AttentionTier == {"NeedsDecision", "Anomaly", "Completed", "Running", "Queued"}

\* ORDER BY id ASC over the ids in use
IdsInOrder == <<"c1", "c2">>

\* the rows of `contracts c JOIN decision_items d ON d.contract_id = c.id
\* WHERE d.resolved = 0`, by decision item
OpenDecisionJoin(db) ==
    SelectSeq(db.decision_items,
              LAMBDA d : d.resolved = 0 /\ HasRow(db, d.contract_id))

\* the status strings of the WHERE clause of a tier
TierStatuses(tier) ==
    CASE tier = "Anomaly"   -> {"failed", "rolling_back", "rolled_back"}
      [] tier = "Completed" -> {"completed"}
      [] tier = "Running"   -> {"executing", "verifying"}
      [] tier = "Queued"    -> {"pending", "ready", "claimed"}
      [] OTHER -> {}

\* the contracts of the selected ids, ORDER BY id ASC, through contract_from_row
ContractsOf(db, ids) ==
    LET Selected(id) == id \in ids
        ordered == SelectSeq(IdsInOrder, Selected)
    IN [i \in DOMAIN ordered |->
          Unwrap(contract_from_row(ordered[i], db.contracts[ordered[i]]))]

list_by_attention_tier_without_distinct(db, tier) ==
    IF tier = "NeedsDecision"
    THEN LET joined == OpenDecisionJoin(db)
             ids == [i \in DOMAIN joined |-> joined[i].contract_id]
             First(id) == id = IdsInOrder[1]
             Second(id) == id = IdsInOrder[2]
             ordered == SelectSeq(ids, First) \o SelectSeq(ids, Second)
         IN [i \in DOMAIN ordered |->
               Unwrap(contract_from_row(ordered[i], db.contracts[ordered[i]]))]
    ELSE ContractsOf(db, {id \in DOMAIN db.contracts :
                             db.contracts[id].status \in TierStatuses(tier)})

\* list_by_attention_tier
list_by_attention_tier(db, tier) ==
    IF tier = "NeedsDecision"
    THEN LET joined == OpenDecisionJoin(db) IN
         ContractsOf(db, {joined[i].contract_id : i \in DOMAIN joined})
    ELSE ContractsOf(db, {id \in DOMAIN db.contracts :
                             db.contracts[id].status \in TierStatuses(tier)})

(***************************************************************************)
(* stead-resources: ResourceRegistry                                       *)
(*                                                                         *)
(* A registry reg is [leases, events]: leases maps the leased ports        *)
(* (ResourceKey::Port(p) is the port p) to their owner, events is the      *)
(* queue of ResourceEvents not yet drained.                                *)
(***************************************************************************)
U16Max == 65535

Max2(a, b) == IF a >= b THEN a ELSE b
saturating_add(a, b) == IF a + b > U16Max THEN U16Max ELSE a + b

\* ResourceRegistry::with_port_range
EmptyRegistry == [leases |-> << >>, events |-> << >>]

Lease(resource, owner) == [resource |-> resource, owner |-> owner]

\* next_available_port_after: Option<ResourceKey>, the first unleased port
\* of (max(requested + 1, start) ..= end)
next_available_port_after(reg, requested) ==
    LET from == Max2(saturating_add(requested, 1), PortStart)
        free == {p \in from..PortEnd : p \notin DOMAIN reg.leases}
    IN IF free = {} THEN None
       ELSE Some(CHOOSE p \in free : \A q \in free : p <= q)

claim_contending_with_own_lease(reg, resource, owner) ==
    IF resource \in DOMAIN reg.leases
    THEN
      LET existing == Lease(resource, reg.leases[resource])
          negotiated_resource == next_available_port_after(reg, resource)
      IN IF IsSome(negotiated_resource)
         THEN [reg |-> [reg EXCEPT !.leases =
                           Upsert(reg.leases, Unwrap(negotiated_resource), owner)],
               result |-> [kind |-> "Negotiated", requested |-> resource,
                           assigned |-> Some(Lease(Unwrap(negotiated_resource), owner)),
                           held_by |-> Some(existing)]]
         ELSE [reg |-> [reg EXCEPT !.events =
                           Append(@, [requested |-> resource,
                                      requested_by |-> owner,
                                      held_by |-> existing.owner,
                                      reason |-> "port_range_exhausted"])],
               result |-> [kind |-> "Conflict", requested |-> resource,
                           assigned |-> None, held_by |-> Some(existing)]]
    ELSE [reg |-> [reg EXCEPT !.leases = Upsert(reg.leases, resource, owner)],
          result |-> [kind |-> "Claimed", requested |-> resource,
                      assigned |-> Some(Lease(resource, owner)), held_by |-> None]]

\* ResourceRegistry::claim: the registry after the call and the ClaimResult
claim(reg, resource, owner) ==
    IF resource \in DOMAIN reg.leases
    THEN
      LET existing == Lease(resource, reg.leases[resource])
          negotiated_resource == next_available_port_after(reg, resource)
      IN IF existing.owner = owner
         THEN [reg |-> reg,
               result |-> [kind |-> "Claimed", requested |-> resource,
                           assigned |-> Some(existing), held_by |-> None]]
         ELSE IF IsSome(negotiated_resource)
         THEN [reg |-> [reg EXCEPT !.leases =
                           Upsert(reg.leases, Unwrap(negotiated_resource), owner)],
               result |-> [kind |-> "Negotiated", requested |-> resource,
                           assigned |-> Some(Lease(Unwrap(negotiated_resource), owner)),
                           held_by |-> Some(existing)]]
         ELSE [reg |-> [reg EXCEPT !.events =
                           Append(@, [requested |-> resource,
                                      requested_by |-> owner,
                                      held_by |-> existing.owner,
                                      reason |-> "port_range_exhausted"])],
               result |-> [kind |-> "Conflict", requested |-> resource,
                           assigned |-> None, held_by |-> Some(existing)]]
    ELSE [reg |-> [reg EXCEPT !.leases = Upsert(reg.leases, resource, owner)],
          result |-> [kind |-> "Claimed", requested |-> resource,
                      assigned |-> Some(Lease(resource, owner)), held_by |-> None]]

drain_events_losing_them(reg) == [reg |-> [reg EXCEPT !.events = << >>], events |-> << >>]

\* drain_events: std::mem::take(&mut self.events)
drain_events(reg) == [reg |-> [reg EXCEPT !.events = << >>], events |-> reg.events]

\* export_leases: the leases of the map. HashMap::values() yields them in an
\* unspecified order, and every consumer is insensitive to it (import_leases
\* inserts by key), so the exported Vec is kept as the set of its elements.
export_leases(reg) == {Lease(p, reg.leases[p]) : p \in DOMAIN reg.leases}

import_leases_ignoring_input(reg, leases) == reg

\* import_leases: clear, then insert every lease under its resource
import_leases(reg, leases) ==
    [reg EXCEPT !.leases =
        [p \in {l.resource : l \in leases} |->
            (CHOOSE l \in leases : l.resource = p).owner]]

Remove(rows, id) == [i \in (DOMAIN rows) \ {id} |-> rows[i]]

release_by_anyone(reg, resource, owner) ==
    IF resource \notin DOMAIN reg.leases
    THEN [reg |-> reg, result |-> [kind |-> "NotFound", resource |-> resource]]
    ELSE [reg |-> [reg EXCEPT !.leases = Remove(reg.leases, resource)],
          result |-> [kind |-> "Ok", lease |-> Lease(resource, reg.leases[resource])]]

\* ResourceRegistry::release: the registry after the call and the
\* Result<ResourceLease, ResourceError>
release(reg, resource, owner) ==
    IF resource \notin DOMAIN reg.leases
    THEN [reg |-> reg, result |-> [kind |-> "NotFound", resource |-> resource]]
    ELSE LET lease == Lease(resource, reg.leases[resource]) IN
         IF lease.owner /= owner
         THEN [reg |-> reg,
               result |-> [kind |-> "NotOwner", resource |-> resource,
                           expected_owner |-> lease.owner,
                           attempted_by |-> owner]]
         ELSE [reg |-> [reg EXCEPT !.leases = Remove(reg.leases, resource)],
               result |-> [kind |-> "Ok", lease |-> lease]]

(***************************************************************************)
(* Endpoint registry (stead-endpoints)                                     *)
(*                                                                         *)
(* A registry reg is [leases_by_name, events]: leases_by_name maps the     *)
(* leased names to their EndpointLease, events is the queue of             *)
(* EndpointEvents not yet drained. Its port range is                       *)
(* (EndpointStart, EndpointEnd).                                           *)
(***************************************************************************)
\* EndpointRegistry::with_port_range
EmptyEndpointRegistry == [leases_by_name |-> << >>, events |-> << >>]

EndpointLease(name, owner, port) == [name |-> name, owner |-> owner, port |-> port]

\* self.leases_by_name.values()
LeaseValues(reg) == {reg.leases_by_name[n] : n \in DOMAIN reg.leases_by_name}

port_in_range(port) == EndpointStart <= port /\ port <= EndpointEnd

is_port_free_ignoring_range(reg, port) ==
    \A existing \in LeaseValues(reg) : existing.port /= port

is_port_free(reg, port) ==
    /\ port_in_range(port)
    /\ \A existing \in LeaseValues(reg) : existing.port /= port

\* lease_for_port: values().find(|lease| lease.port == port). A HashMap
\* yields its values in an unspecified order, so with several leases on the
\* port any of them may be the one found: the set of possible Options.
lease_for_port(reg, port) ==
    LET found == {lease \in LeaseValues(reg) : lease.port = port} IN
    IF found = {} THEN {None} ELSE {Some(lease) : lease \in found}

\* the range a ..= b as the sequence an iterator yields
RangeInclusive(a, b) == [i \in 1..(b - a + 1) |-> a + i - 1]

\* Iterator::find: the first element of the sequence that passes the test,
\* the test given as the set of values that pass it
Find(candidates, passing) ==
    LET hits == {i \in 1..Len(candidates) : candidates[i] \in passing} IN
    IF hits = {} THEN None
    ELSE Some(candidates[CHOOSE i \in hits : \A j \in hits : i <= j])

endpoint_next_available_port_keeping_requested(reg, requested) ==
    IF ~port_in_range(requested) THEN None ELSE Some(requested)

endpoint_next_available_port_without_wrap(reg, requested) ==
    IF ~port_in_range(requested) THEN None
    ELSE LET candidates == RangeInclusive(saturating_add(requested, 1), EndpointEnd)
         IN Find(candidates, {c \in Range(candidates) : is_port_free(reg, c)})

\* EndpointRegistry::next_available_port_after:
\* (requested+1 ..= end).chain(start .. requested).find(is_port_free)
endpoint_next_available_port_after(reg, requested) ==
    IF ~port_in_range(requested) THEN None
    ELSE LET candidates == RangeInclusive(saturating_add(requested, 1), EndpointEnd)
                              \o RangeInclusive(EndpointStart, requested - 1)
         IN Find(candidates, {c \in Range(candidates) : is_port_free(reg, c)})

reclaimed_at_requested_port(existing, requested_port) ==
    [existing EXCEPT !.port = requested_port]

\* the same-owner branch: Claimed(existing), whatever port was requested
reclaimed(existing, requested_port) == existing

endpoint_claim_taking_the_name(reg, name, owner, requested_port_option) ==
    LET lease == EndpointLease(name, owner, EndpointStart) IN
    {[reg |-> [reg EXCEPT !.leases_by_name = Upsert(@, name, lease)],
      result |-> [kind |-> "Claimed", name |-> name, requested_port |-> EndpointStart,
                  assigned |-> Some(lease), held_by |-> None]]}

\* EndpointRegistry::claim: the possible outcomes of the call, each the
\* registry after it and the EndpointClaimResult. A result of kind "panic"
\* is the expect("requested port was occupied") failing.
endpoint_claim(reg, name, owner, requested_port_option) ==
    LET requested_port == IF IsSome(requested_port_option)
                          THEN Unwrap(requested_port_option)
                          ELSE EndpointStart
        Result(kind, assigned, held_by) ==
            [kind |-> kind, name |-> name, requested_port |-> requested_port,
             assigned |-> assigned, held_by |-> held_by]
        assigned_port == endpoint_next_available_port_after(reg, requested_port)
    IN
    IF name \in DOMAIN reg.leases_by_name
    THEN LET existing == reg.leases_by_name[name] IN
         IF existing.owner = owner
         THEN {[reg |-> reg,
                result |-> Result("Claimed",
                                  Some(reclaimed(existing, requested_port)), None)]}
         ELSE {[reg |-> reg, result |-> Result("Conflict", None, Some(existing))]}
    ELSE IF is_port_free(reg, requested_port)
    THEN LET lease == EndpointLease(name, owner, requested_port) IN
         {[reg |-> [reg EXCEPT !.leases_by_name = Upsert(@, name, lease)],
           result |-> Result("Claimed", Some(lease), None)]}
    ELSE IF IsSome(assigned_port)
    THEN LET lease == EndpointLease(name, owner, Unwrap(assigned_port)) IN
         {IF IsSome(held_by)
          THEN [reg |-> [reg EXCEPT !.leases_by_name = Upsert(@, name, lease)],
                result |-> Result("Negotiated", Some(lease), held_by)]
          ELSE [reg |-> reg, result |-> Result("panic", None, None)]
          : held_by \in lease_for_port(reg, requested_port)}
    ELSE {[reg |-> [reg EXCEPT !.events =
                       Append(@, [name |-> name, owner |-> owner,
                                  requested_port |-> requested_port,
                                  reason |-> "endpoint_range_exhausted"])],
           result |-> Result("Conflict", None, held_by)]
          : held_by \in lease_for_port(reg, requested_port)}

endpoint_release_by_anyone(reg, name, owner) ==
    IF name \notin DOMAIN reg.leases_by_name
    THEN [reg |-> reg, result |-> [kind |-> "NotFound", name |-> name]]
    ELSE [reg |-> [reg EXCEPT !.leases_by_name = Remove(@, name)],
          result |-> [kind |-> "Ok", lease |-> reg.leases_by_name[name]]]

\* EndpointRegistry::release
endpoint_release(reg, name, owner) ==
    IF name \notin DOMAIN reg.leases_by_name
    THEN [reg |-> reg, result |-> [kind |-> "NotFound", name |-> name]]
    ELSE LET lease == reg.leases_by_name[name] IN
         IF lease.owner /= owner
         THEN [reg |-> reg,
               result |-> [kind |-> "NotOwner", name |-> name,
                           expected_owner |-> lease.owner,
                           attempted_by |-> owner]]
         ELSE [reg |-> [reg EXCEPT !.leases_by_name = Remove(@, name)],
               result |-> [kind |-> "Ok", lease |-> lease]]

\* EndpointRegistry::drain_events
endpoint_drain_events(reg) ==
    [reg |-> [reg EXCEPT !.events = << >>], events |-> reg.events]

\* String::cmp on the names in use: the names in ascending order
NamesInOrder == <<"alpha", "bravo", "charlie">>

\* EndpointRegistry::list: the leases sorted by name
endpoint_list(reg) ==
    LET Leased(n) == n \in DOMAIN reg.leases_by_name
        names == SelectSeq(NamesInOrder, Leased)
    IN [i \in 1..Len(names) |-> reg.leases_by_name[names[i]]]

\* EndpointRegistry::export_leases
endpoint_export_leases(reg) == endpoint_list(reg)

\* EndpointRegistry::import_leases: clear, then insert every lease under its
\* name, a later lease replacing an earlier one of the same name
endpoint_import_leases(reg, leases) ==
    [reg EXCEPT !.leases_by_name =
        [n \in {leases[i].name : i \in DOMAIN leases} |->
            LET at == {i \in DOMAIN leases : leases[i].name = n}
            IN leases[CHOOSE i \in at : \A j \in at : j <= i]]]

(***************************************************************************)
(* stead-core: ContractStatus and Contract (schema/contract.rs)            *)
(*                                                                         *)
(* A contract is [status, completed_at, owner]; Utc::now() is the one      *)
(* value "now".                                                            *)
(***************************************************************************)
core_valid_transitions(self) ==
    CASE self = "Pending"     -> <<"Ready", "Cancelled">>
      [] self = "Ready"       -> <<"Claimed", "Cancelled">>
      [] self = "Claimed"     -> <<"Executing", "Ready", "Cancelled">>
      [] self = "Executing"   -> <<"Verifying", "Failed", "Cancelled">>
      [] self = "Verifying"   -> <<"Completed", "Failed">>
      [] self = "Completed"   -> << >>
      [] self = "Failed"      -> <<"Ready", "RollingBack", "Cancelled">>
      [] self = "RollingBack" -> <<"RolledBack", "Failed">>
      [] self = "RolledBack"  -> << >>
      [] self = "Cancelled"   -> << >>

core_can_transition_to(self, target) ==
    \E i \in DOMAIN core_valid_transitions(self) : core_valid_transitions(self)[i] = target

core_is_terminal(self) == core_valid_transitions(self) = << >>

\* Contract::new
core_new == [status |-> "Pending", completed_at |-> None, owner |-> None]

\* Contract::transition_to
core_transition_to(self, target) ==
    IF ~core_can_transition_to(self.status, target)
    THEN [ok |-> FALSE, contract |-> self]
    ELSE [ok |-> TRUE,
          contract |-> [self EXCEPT !.status = target,
                                    !.completed_at = IF core_is_terminal(target)
                                                     THEN Some("now") ELSE @]]

\* Contract::mark_ready
core_mark_ready(self) == core_transition_to(self, "Ready")

\* Contract::claim
core_claim(self, owner) ==
    LET r == core_transition_to(self, "Claimed") IN
    IF r.ok THEN [r EXCEPT !.contract.owner = Some(owner)] ELSE r

\* Contract::unclaim
core_unclaim(self) ==
    LET r == core_transition_to(self, "Ready") IN
    IF r.ok THEN [r EXCEPT !.contract.owner = None] ELSE r

\* Contract::start
core_start(self) == core_transition_to(self, "Executing")

\* Contract::begin_verify
core_begin_verify(self) == core_transition_to(self, "Verifying")

\* Contract::complete: no Result, the status is assigned
core_complete(self, passed) ==
    [ok |-> TRUE,
     contract |-> [self EXCEPT !.status = IF passed THEN "Completed" ELSE "Failed",
                               !.completed_at = Some("now")]]

\* Contract::cancel
core_cancel(self) == core_transition_to(self, "Cancelled")

(***************************************************************************)
(* stead-core: the commands, on the stored contract. Each returns whether  *)
(* it got to update_contract, the contract then stored, and the statuses   *)
(* the contract went through.                                              *)
(***************************************************************************)
\* commands/claim.rs execute_with_storage
claim_execute(stored, owner) ==
    LET readied == IF stored.status = "Pending"
                   THEN core_mark_ready(stored)
                   ELSE [ok |-> TRUE, contract |-> stored]
        claimed == core_claim(readied.contract, owner)
    IN IF readied.ok /\ claimed.ok
       THEN [ok |-> TRUE, contract |-> claimed.contract,
             path |-> IF stored.status = "Pending"
                      THEN <<stored.status, readied.contract.status, claimed.contract.status>>
                      ELSE <<stored.status, claimed.contract.status>>]
       ELSE [ok |-> FALSE, contract |-> stored, path |-> <<stored.status>>]

\* commands/cancel.rs execute_with_storage
cancel_execute(stored) ==
    LET r == core_cancel(stored) IN
    IF r.ok
    THEN [ok |-> TRUE, contract |-> r.contract, path |-> <<stored.status, r.contract.status>>]
    ELSE [ok |-> FALSE, contract |-> stored, path |-> <<stored.status>>]

\* commands/verify.rs execute_with_storage, the verification passing or not
verify_execute(stored, passed) ==
    LET r == core_complete(stored, passed) IN
    [ok |-> TRUE, contract |-> r.contract, path |-> <<stored.status, r.contract.status>>]

\* commands/run.rs execute_with_storage: a new contract taken to its result
run_execute(passed) ==
    LET created == core_new
        readied == core_mark_ready(created).contract
        claimed == core_claim(readied, "stead-cli").contract
        started == core_start(claimed).contract
        verifying == core_begin_verify(started).contract
        completed == core_complete(verifying, passed).contract
    IN [ok |-> TRUE, contract |-> completed,
        path |-> <<created.status, readied.status, claimed.status, started.status,
                   verifying.status, completed.status>>]

(***************************************************************************)
(* State                                                                   *)
(***************************************************************************)
VARIABLES
    contracts,        \* store: the contracts table
    contract_events,  \* store: the contract_events table
    decision_items,   \* store: the decision_items table
    resources,        \* daemon: the ResourceRegistry behind its mutex
    resources_json,   \* the resources.json file: None while missing
    next_cursor,      \* EventState.next_cursor
    history,          \* EventState.history
    subscribers,      \* EventState.subscribers: the Senders, by channel
    channels,         \* the mpsc channels: what was sent, receiver alive
    h,                \* daemon: each thread's handler position and locals
    requests,         \* daemon: requests the run may still accept
    client,           \* the reconnecting event-stream client
    user,             \* direct store user: its Contract objects and last call
    store_ops,        \* direct store user: calls made so far
    lc,               \* lifecycle: a free-standing Contract and its last call
    rr,               \* a free-standing ResourceRegistry and its last call
    er,               \* a free-standing EndpointRegistry and its last call
    twins,            \* two fresh registries of each kind, fed the same claims
    caller,           \* daemon: the kind of actor sending the requests
    core              \* stead-core: the stored Contract and the last call on it

store_vars == <<contracts, contract_events, decision_items>>
bus_vars == <<next_cursor, history, subscribers, channels>>
daemon_vars == <<resources, resources_json, h, requests, client>>
user_vars == <<user, store_ops>>
registry_vars == <<rr, er, twins>>
vars == <<store_vars, bus_vars, daemon_vars, user_vars, lc, registry_vars, caller, core>>

Db == [contracts |-> contracts, contract_events |-> contract_events,
       decision_items |-> decision_items]

(***************************************************************************)
(* stead-daemon: the event bus                                             *)
(***************************************************************************)
Bus == [next_cursor |-> next_cursor, history |-> history,
        subscribers |-> subscribers, channels |-> channels]

\* Sender::send is Ok while the receiver has not been dropped
SendOk(bus, ch) == bus.channels[ch].alive

publish_reusing_cursor(bus, kind) ==
    LET event == [cursor |-> bus.next_cursor, kind |-> kind] IN
    [bus EXCEPT
        !.next_cursor = bus.next_cursor + 1,
        !.history = Append(bus.history, event),
        !.subscribers = SelectSeq(bus.subscribers, LAMBDA ch : SendOk(bus, ch)),
        !.channels = [ch \in DOMAIN bus.channels |->
                        IF SendOk(bus, ch) /\ ch \in Range(bus.subscribers)
                        THEN [bus.channels[ch] EXCEPT !.queue = Append(@, event)]
                        ELSE bus.channels[ch]]]

publish_undelivered_on_failure(bus, kind) ==
    LET cursor == bus.next_cursor + 1
        event == [cursor |-> cursor, kind |-> kind]
        all_ok == \A ch \in Range(bus.subscribers) : SendOk(bus, ch)
    IN [bus EXCEPT
        !.next_cursor = cursor,
        !.history = Append(bus.history, event),
        !.subscribers = SelectSeq(bus.subscribers, LAMBDA ch : SendOk(bus, ch)),
        !.channels = [ch \in DOMAIN bus.channels |->
                        IF all_ok /\ ch \in Range(bus.subscribers)
                        THEN [bus.channels[ch] EXCEPT !.queue = Append(@, event)]
                        ELSE bus.channels[ch]]]

\* Daemon::publish, under the event lock
publish(bus, kind) ==
    LET cursor == bus.next_cursor + 1
        event == [cursor |-> cursor, kind |-> kind]
    IN [bus EXCEPT
        !.next_cursor = cursor,
        !.history = Append(bus.history, event),
        !.subscribers = SelectSeq(bus.subscribers, LAMBDA ch : SendOk(bus, ch)),
        !.channels = [ch \in DOMAIN bus.channels |->
                        IF SendOk(bus, ch) /\ ch \in Range(bus.subscribers)
                        THEN [bus.channels[ch] EXCEPT !.queue = Append(@, event)]
                        ELSE bus.channels[ch]]]

subscribe_without_registering(bus, ch) ==
    [bus EXCEPT !.channels = Upsert(bus.channels, ch, [queue |-> << >>, alive |-> TRUE])]

\* Daemon::subscribe: a new channel whose Sender joins the subscribers
subscribe(bus, ch) ==
    [bus EXCEPT
        !.subscribers = Append(bus.subscribers, ch),
        !.channels = Upsert(bus.channels, ch, [queue |-> << >>, alive |-> TRUE])]

replay_from_skipping_next(bus, cursor) ==
    SelectSeq(bus.history, LAMBDA event : event.cursor > cursor + 1)

\* Daemon::replay_from
replay_from(bus, cursor) ==
    SelectSeq(bus.history, LAMBDA event : event.cursor > cursor)

SetBus(bus) ==
    /\ next_cursor' = bus.next_cursor
    /\ history' = bus.history
    /\ subscribers' = bus.subscribers
    /\ channels' = bus.channels

\* DaemonEventKind
ContractCreated(id) == [tag |-> "ContractCreated", id |-> id]
ContractTransitioned(id, from, to) ==
    [tag |-> "ContractTransitioned", id |-> id, from |-> from, to |-> to]
ResourceConflictEscalated(e) ==
    [tag |-> "ResourceConflictEscalated", resource |-> e.requested,
     requested_by |-> e.requested_by, held_by |-> e.held_by, reason |-> e.reason]

(***************************************************************************)
(* stead-daemon: Daemon::handle, one action per atomic step of a handler   *)
(***************************************************************************)
NoRequest == [kind |-> "", id |-> "", blocked_by |-> << >>, to |-> "",
              resource |-> 0, owner |-> ""]

Idle == [pc |-> "idle", req |-> NoRequest, contract |-> None, event |-> None,
         claim |-> None, resource_events |-> << >>, leases |-> {},
         cursors |-> << >>, counts |-> << >>, result |-> ""]

\* handle returns: the locals are dropped, the response stays with the caller
Finish(handler, result) ==
    [handler EXCEPT !.pc = "done", !.result = result, !.event = None,
                    !.resource_events = << >>, !.leases = {}]

Free(t) == h[t].pc \in {"idle", "done"}

\* The callers' threads are interchangeable: a new request runs on the first
\* thread that is not inside handle.
Accept(t) ==
    /\ Free(t)
    /\ \A u \in Threads : Free(u) => ThreadNo(t) <= ThreadNo(u)
    /\ requests > 0
    /\ requests' = requests - 1

\* CreateContract: Contract::new and save_contract, one statement
CreateContractSave(t, id, blocked_by, fault) ==
    /\ Accept(t)
    /\ LET contract == ContractNew(id, blocked_by)
           req == [NoRequest EXCEPT !.kind = "CreateContract", !.id = id,
                                    !.blocked_by = blocked_by]
           started == [Idle EXCEPT !.req = req, !.contract = Some(contract)]
       IN IF fault = "none"
          THEN /\ contracts' = save_contract(Db, contract).contracts
               /\ h' = [h EXCEPT ![t] = [started EXCEPT !.pc = "publish"]]
          ELSE /\ contracts' = contracts
               /\ h' = [h EXCEPT ![t] = Finish(started, "storage_error")]
    /\ UNCHANGED <<contract_events, decision_items, bus_vars, resources, resources_json, client,
                   user_vars, lc, registry_vars, caller, core>>

\* CreateContract: self.publish(ContractCreated { id })
CreateContractPublish(t) ==
    /\ h[t].pc = "publish"
    /\ h[t].req.kind = "CreateContract"
    /\ LET bus == publish(Bus, ContractCreated(h[t].req.id)) IN
       /\ SetBus(bus)
       /\ h' = [h EXCEPT ![t] =
                  Finish([h[t] EXCEPT !.cursors = Append(@, bus.next_cursor)], "ok")]
    /\ UNCHANGED <<store_vars, resources, resources_json, requests, client,
                   user_vars, lc, registry_vars, caller, core>>

\* TransitionContract: load_contract, then contract.transition_to(to)
TransitionContractLoad(t, id, to) ==
    /\ Accept(t)
    /\ LET req == [NoRequest EXCEPT !.kind = "TransitionContract", !.id = id, !.to = to]
           started == [Idle EXCEPT !.req = req]
           loaded == load_contract(Db, id)
       IN IF ~IsSome(loaded)
          THEN h' = [h EXCEPT ![t] = Finish(started, "not_found")]
          ELSE LET r == contract_transition_to(Unwrap(loaded), to) IN
               IF ~r.ok
               THEN h' = [h EXCEPT ![t] =
                            Finish([started EXCEPT !.contract = loaded], "invalid_transition")]
               ELSE h' = [h EXCEPT ![t] =
                            [started EXCEPT !.pc = "record",
                                            !.contract = Some(r.contract),
                                            !.event = r.event]]
    /\ UNCHANGED <<store_vars, bus_vars, resources, resources_json, client,
                   user_vars, lc, registry_vars, caller, core>>

\* TransitionContract: self.store.record_transition(&contract, &event)
TransitionContractRecord(t, fault) ==
    /\ h[t].pc = "record"
    /\ LET r == record_transition(Db, Unwrap(h[t].contract), Unwrap(h[t].event), fault) IN
       /\ contracts' = r.db.contracts
       /\ contract_events' = r.db.contract_events
       /\ h' = [h EXCEPT ![t] =
                  IF r.ok THEN [h[t] EXCEPT !.pc = "publish"]
                  ELSE Finish(h[t], "storage_error")]
    /\ UNCHANGED <<decision_items, bus_vars, resources, resources_json, requests, client,
                   user_vars, lc, registry_vars, caller, core>>

\* TransitionContract: self.publish(ContractTransitioned { id, from, to })
TransitionContractPublish(t) ==
    /\ h[t].pc = "publish"
    /\ h[t].req.kind = "TransitionContract"
    /\ LET event == Unwrap(h[t].event)
           bus == publish(Bus, ContractTransitioned(event.contract_id, event.from, event.to))
       IN /\ SetBus(bus)
          /\ h' = [h EXCEPT ![t] =
                     Finish([h[t] EXCEPT !.cursors = Append(@, bus.next_cursor)], "ok")]
    /\ UNCHANGED <<store_vars, resources, resources_json, requests, client,
                   user_vars, lc, registry_vars, caller, core>>

\* ClaimResource: claim, drain_events and export_leases under the registry lock
ClaimResourceLocked(t, resource, owner) ==
    /\ Accept(t)
    /\ LET req == [NoRequest EXCEPT !.kind = "ClaimResource", !.resource = resource,
                                    !.owner = owner]
           claimed == claim(resources, resource, owner)
           drained == drain_events(claimed.reg)
       IN /\ resources' = drained.reg
          /\ h' = [h EXCEPT ![t] =
                     [Idle EXCEPT !.pc = "persist", !.req = req,
                                  !.claim = Some(claimed.result),
                                  !.resource_events = drained.events,
                                  !.leases = export_leases(drained.reg)]]
    /\ UNCHANGED <<store_vars, bus_vars, resources_json, client, user_vars, lc, registry_vars, caller, core>>

\* ClaimResource: persist_resource_leases(&leases)?, fs::write failing or not
ClaimResourcePersist(t, written) ==
    /\ h[t].pc = "persist"
    /\ IF written
       THEN /\ resources_json' = Some(h[t].leases)
            /\ h' = [h EXCEPT ![t] =
                       IF h[t].resource_events = << >>
                       THEN Finish(h[t], "ok")
                       ELSE [h[t] EXCEPT !.pc = "publish_resource"]]
       ELSE /\ resources_json' = resources_json
            /\ h' = [h EXCEPT ![t] = Finish(h[t], "storage_error")]
    /\ UNCHANGED <<store_vars, bus_vars, resources, requests, client, user_vars, lc, registry_vars, caller, core>>

\* ClaimResource: one turn of `for event in resource_events`
ClaimResourcePublish(t) ==
    /\ h[t].pc = "publish_resource"
    /\ LET bus == publish(Bus, ResourceConflictEscalated(Head(h[t].resource_events)))
           rest == Tail(h[t].resource_events)
           next == [h[t] EXCEPT !.resource_events = rest,
                                !.cursors = Append(@, bus.next_cursor)]
       IN /\ SetBus(bus)
          /\ h' = [h EXCEPT ![t] = IF rest = << >> THEN Finish(next, "ok") ELSE next]
    /\ UNCHANGED <<store_vars, resources, resources_json, requests, client,
                   user_vars, lc, registry_vars, caller, core>>

\* The fields of AttentionCounts, in the order the handler evaluates them
AttentionCountsOrder == <<"NeedsDecision", "Anomaly", "Completed", "Running", "Queued">>

\* AttentionStatus: the first list_by_attention_tier(..).len()
AttentionStatusBegin(t) ==
    /\ Accept(t)
    /\ LET req == [NoRequest EXCEPT !.kind = "AttentionStatus"]
           count == Len(list_by_attention_tier(Db, AttentionCountsOrder[1]))
       IN h' = [h EXCEPT ![t] = [Idle EXCEPT !.pc = "attention", !.req = req,
                                            !.counts = <<count>>]]
    /\ UNCHANGED <<store_vars, bus_vars, resources, resources_json, client,
                   user_vars, lc, registry_vars, caller, core>>

\* AttentionStatus: the next list_by_attention_tier(..).len(); after the last
\* one the counts are returned
AttentionStatusNext(t) ==
    /\ h[t].pc = "attention"
    /\ LET tier == AttentionCountsOrder[Len(h[t].counts) + 1]
           counted == [h[t] EXCEPT !.counts = Append(@, Len(list_by_attention_tier(Db, tier)))]
       IN h' = [h EXCEPT ![t] =
                  IF Len(counted.counts) = Len(AttentionCountsOrder)
                  THEN Finish(counted, "ok")
                  ELSE counted]
    /\ UNCHANGED <<store_vars, bus_vars, resources, resources_json, requests, client,
                   user_vars, lc, registry_vars, caller, core>>

\* load_resource_leases: the leases of resources.json, none when the file is
\* missing or unreadable
load_resource_leases(file) == IF IsSome(file) THEN Unwrap(file) ELSE {}

\* Daemon::with_port_range reopened on the same path: the registry it starts with
reopened_resources(file) == import_leases(EmptyRegistry, load_resource_leases(file))

(***************************************************************************)
(* An event-stream client that reconnects: it has seen the events up to    *)
(* cursor c, calls subscribe() and then replay_from(c); it may drop its    *)
(* Receiver afterwards.                                                    *)
(***************************************************************************)
ClientChannel == "rx"

NewClient == [pc |-> "start", c |-> 0, replay |-> << >>]

ClientObserve(c) ==
    /\ client.pc = "start"
    /\ c \in 0..next_cursor
    /\ client' = [client EXCEPT !.pc = "observed", !.c = c]
    /\ UNCHANGED <<store_vars, bus_vars, resources, resources_json, h, requests,
                   user_vars, lc, registry_vars, caller, core>>

ClientSubscribe ==
    /\ client.pc = "observed"
    /\ SetBus(subscribe(Bus, ClientChannel))
    /\ client' = [client EXCEPT !.pc = "subscribed"]
    /\ UNCHANGED <<store_vars, resources, resources_json, h, requests, user_vars, lc, registry_vars, caller, core>>

ClientReplay ==
    /\ client.pc = "subscribed"
    /\ client' = [client EXCEPT !.pc = "replayed", !.replay = replay_from(Bus, client.c)]
    /\ UNCHANGED <<store_vars, bus_vars, resources, resources_json, h, requests,
                   user_vars, lc, registry_vars, caller, core>>

\* the Receiver is dropped: every later send on the channel fails
ClientDrop ==
    /\ client.pc \in {"subscribed", "replayed"}
    /\ channels' = [channels EXCEPT ![ClientChannel].alive = FALSE]
    /\ client' = [client EXCEPT !.pc = "dropped"]
    /\ UNCHANGED <<store_vars, next_cursor, history, subscribers, resources,
                   resources_json, h, requests, user_vars, lc, registry_vars, caller, core>>

(***************************************************************************)
(* The event bus on its own: receivers subscribe and are dropped while     *)
(* events are published                                                    *)
(***************************************************************************)
BusChannels == {"rx1", "rx2"}

\* let rx = daemon.subscribe()
BusSubscribe(ch) ==
    /\ ch \notin DOMAIN channels
    /\ SetBus(subscribe(Bus, ch))
    /\ UNCHANGED <<store_vars, daemon_vars, user_vars, lc, registry_vars, caller, core>>

\* a handler reaches self.publish(kind)
BusPublish(kind) ==
    /\ next_cursor < MaxPublishes
    /\ SetBus(publish(Bus, kind))
    /\ UNCHANGED <<store_vars, daemon_vars, user_vars, lc, registry_vars, caller, core>>

\* drop(rx): every later send on the channel fails
BusDrop(ch) ==
    /\ ch \in DOMAIN channels
    /\ channels[ch].alive
    /\ channels' = [channels EXCEPT ![ch].alive = FALSE]
    /\ UNCHANGED <<store_vars, next_cursor, history, subscribers, daemon_vars,
                   user_vars, lc, registry_vars, caller, core>>

(***************************************************************************)
(* A direct user of the store, as the store's tests are: it holds Contract *)
(* objects, moves them with transition_to, and passes any of them with the *)
(* last event it got to record_transition.                                 *)
(***************************************************************************)
NewUser == [local |-> << >>, event |-> None,
            last |-> [op |-> "", ok |-> TRUE, err |-> ""]]

StoreOp == store_ops < MaxStoreOps /\ store_ops' = store_ops + 1

SetDb(db) ==
    /\ contracts' = db.contracts
    /\ contract_events' = db.contract_events
    /\ decision_items' = db.decision_items

\* let contract = Contract::new(id, blocked_by)
UserNew(id, blocked_by) ==
    /\ StoreOp
    /\ user' = [user EXCEPT !.local = Upsert(@, id, ContractNew(id, blocked_by)),
                            !.last = [op |-> "new", ok |-> TRUE, err |-> ""]]
    /\ UNCHANGED <<store_vars, bus_vars, daemon_vars, lc, registry_vars, caller, core>>

\* store.save_contract(&contract)
UserSave(id) ==
    /\ StoreOp
    /\ id \in DOMAIN user.local
    /\ SetDb(save_contract(Db, user.local[id]))
    /\ user' = [user EXCEPT !.last = [op |-> "save_contract", ok |-> TRUE, err |-> ""]]
    /\ UNCHANGED <<bus_vars, daemon_vars, lc, registry_vars, caller, core>>

\* let event = contract.transition_to(target)
UserTransition(id, target) ==
    /\ StoreOp
    /\ id \in DOMAIN user.local
    /\ LET r == contract_transition_to(user.local[id], target) IN
       user' = [user EXCEPT !.local[id] = r.contract,
                            !.event = IF r.ok THEN r.event ELSE @,
                            !.last = [op |-> "transition_to", ok |-> r.ok, err |-> ""]]
    /\ UNCHANGED <<store_vars, bus_vars, daemon_vars, lc, registry_vars, caller, core>>

\* store.record_transition(&contract, &event)
UserRecord(id, fault) ==
    /\ StoreOp
    /\ id \in DOMAIN user.local
    /\ IsSome(user.event)
    /\ LET r == record_transition(Db, user.local[id], Unwrap(user.event), fault) IN
       /\ SetDb(r.db)
       /\ user' = [user EXCEPT !.last = [op |-> "record_transition", ok |-> r.ok,
                                         err |-> r.err]]
    /\ UNCHANGED <<bus_vars, daemon_vars, lc, registry_vars, caller, core>>

Summaries == {"First", "Second"}

\* store.create_decision(contract_id, summary)
UserCreateDecision(contract_id, summary) ==
    /\ StoreOp
    /\ LET r == create_decision(Db, contract_id, summary) IN
       /\ SetDb(r.db)
       /\ user' = [user EXCEPT !.last = [op |-> "create_decision", ok |-> r.ok,
                                         err |-> IF r.ok THEN "" ELSE "SqliteFailure"]]
    /\ UNCHANGED <<bus_vars, daemon_vars, lc, registry_vars, caller, core>>

(***************************************************************************)
(* The lifecycle functions on a free-standing Contract                     *)
(***************************************************************************)
NoCall == [op |-> "", from |-> "", target |-> "", ok |-> TRUE, event |-> None,
           passed |-> FALSE, action |-> "", actor |-> ""]

\* the Contract the calls are made on
LcContract == [id |-> "c1", status |-> lc.status, blocked_by |-> << >>]

\* the contract after a call and what the call returned
LcReturned(op, target, r) ==
    [status |-> r.contract.status,
     call |-> [NoCall EXCEPT !.op = op, !.from = lc.status, !.target = target,
                             !.ok = r.ok, !.event = r.event]]

\* contract.transition_to(target)
LcTransitionTo(target) ==
    /\ lc' = LcReturned("transition_to", target, contract_transition_to(LcContract, target))
    /\ UNCHANGED <<store_vars, bus_vars, daemon_vars, user_vars, registry_vars, caller, core>>

\* contract.finish_verification(passed)
LcFinishVerification(passed) ==
    /\ LET returned == LcReturned("finish_verification", "",
                                  finish_verification(LcContract, passed))
       IN lc' = [returned EXCEPT !.call.passed = passed]
    /\ UNCHANGED <<store_vars, bus_vars, daemon_vars, user_vars, registry_vars, caller, core>>

\* contract.cancel()
LcCancel ==
    /\ lc' = LcReturned("cancel", "", cancel(LcContract))
    /\ UNCHANGED <<store_vars, bus_vars, daemon_vars, user_vars, registry_vars, caller, core>>

\* action.is_allowed_for(actor): no contract is involved
LcIsAllowedFor(action, actor) ==
    /\ lc' = [lc EXCEPT !.call = [NoCall EXCEPT !.op = "is_allowed_for",
                                                !.from = lc.status,
                                                !.action = action, !.actor = actor,
                                                !.ok = is_allowed_for(action, actor)]]
    /\ UNCHANGED <<store_vars, bus_vars, daemon_vars, user_vars, registry_vars, caller, core>>

(***************************************************************************)
(* A free-standing ResourceRegistry, as the crate's tests drive it         *)
(***************************************************************************)
\* The ports a caller may name: ResourceKey::Port takes any u16, so the
\* requests reach below and above the configured range
RequestPorts == (PortStart - 2)..(PortEnd + 1)

NoRegistryCall == [op |-> "new"]

\* the registry, the last call made on it (with the registry it found and
\* what it returned), the call before that, and the number of calls so far
NewResourceUser ==
    [reg |-> EmptyRegistry, call |-> NoRegistryCall, prev |-> NoRegistryCall,
     ops |-> 0]

\* registry.claim(ResourceKey::port(resource), owner)
RrClaim(resource, owner) ==
    /\ rr.ops < MaxRegistryOps
    /\ LET r == claim(rr.reg, resource, owner) IN
       rr' = [reg |-> r.reg,
              call |-> [op |-> "claim", resource |-> resource, owner |-> owner,
                        before |-> rr.reg, result |-> r.result],
              prev |-> rr.call,
              ops |-> rr.ops + 1]
    /\ UNCHANGED <<store_vars, bus_vars, daemon_vars, user_vars, lc, er, twins, caller, core>>

\* registry.release(ResourceKey::port(resource), owner)
RrRelease(resource, owner) ==
    /\ rr.ops < MaxRegistryOps
    /\ LET r == release(rr.reg, resource, owner) IN
       rr' = [reg |-> r.reg,
              call |-> [op |-> "release", resource |-> resource, owner |-> owner,
                        before |-> rr.reg, result |-> r.result],
              prev |-> rr.call,
              ops |-> rr.ops + 1]
    /\ UNCHANGED <<store_vars, bus_vars, daemon_vars, user_vars, lc, er, twins, caller, core>>

\* registry.drain_events()
RrDrainEvents ==
    /\ rr.ops < MaxRegistryOps
    /\ LET r == drain_events(rr.reg) IN
       rr' = [reg |-> r.reg,
              call |-> [op |-> "drain_events", before |-> rr.reg,
                        result |-> r.events],
              prev |-> rr.call,
              ops |-> rr.ops + 1]
    /\ UNCHANGED <<store_vars, bus_vars, daemon_vars, user_vars, lc, er, twins, caller, core>>

(***************************************************************************)
(* A free-standing EndpointRegistry, as the crate's tests drive it         *)
(***************************************************************************)
\* requested_port: Option<u16>, any u16: the requests reach beyond the
\* configured range
RequestedPorts ==
    {None} \cup {Some(p) : p \in EndpointStart..(EndpointEnd + 1)}

NewEndpointUser ==
    [reg |-> EmptyEndpointRegistry, call |-> NoRegistryCall,
     prev |-> NoRegistryCall, ops |-> 0]

\* registry.claim(name, owner, requested_port)
ErClaim(name, owner, requested_port) ==
    /\ er.ops < MaxEndpointOps
    /\ \E r \in endpoint_claim(er.reg, name, owner, requested_port) :
          er' = [reg |-> r.reg,
                 call |-> [op |-> "claim", name |-> name, owner |-> owner,
                           requested_port |-> requested_port,
                           before |-> er.reg, result |-> r.result],
                 prev |-> er.call, ops |-> er.ops + 1]
    /\ UNCHANGED <<store_vars, bus_vars, daemon_vars, user_vars, lc, rr, twins, caller, core>>

\* registry.release(name, owner)
ErRelease(name, owner) ==
    /\ er.ops < MaxEndpointOps
    /\ LET r == endpoint_release(er.reg, name, owner) IN
       er' = [reg |-> r.reg,
              call |-> [op |-> "release", name |-> name, owner |-> owner,
                        before |-> er.reg, result |-> r.result],
              prev |-> er.call, ops |-> er.ops + 1]
    /\ UNCHANGED <<store_vars, bus_vars, daemon_vars, user_vars, lc, rr, twins, caller, core>>

\* registry.drain_events()
ErDrainEvents ==
    /\ er.ops < MaxEndpointOps
    /\ LET r == endpoint_drain_events(er.reg) IN
       er' = [reg |-> r.reg,
              call |-> [op |-> "drain_events", before |-> er.reg,
                        result |-> r.events],
              prev |-> er.call, ops |-> er.ops + 1]
    /\ UNCHANGED <<store_vars, bus_vars, daemon_vars, user_vars, lc, rr, twins, caller, core>>

(***************************************************************************)
(* Two fresh registries of one kind, given the same claims in the same     *)
(* order                                                                   *)
(***************************************************************************)
RegistryKinds == {"ResourceRegistry", "EndpointRegistry"}

\* with_port_range(start, end), twice, and no claim made yet
NewTwins(kind) ==
    LET fresh == IF kind = "ResourceRegistry"
                 THEN EmptyRegistry ELSE EmptyEndpointRegistry IN
    [kind |-> kind, left |-> fresh, right |-> fresh,
     left_result |-> NoRegistryCall, right_result |-> NoRegistryCall,
     restored |-> FALSE, claims |-> 0]

\* left.claim(ResourceKey::port(resource), owner) and the same on right
TwinResourceClaim(resource, owner) ==
    /\ twins.kind = "ResourceRegistry"
    /\ twins.claims < MaxTwinClaims
    /\ LET l == claim(twins.left, resource, owner)
           r == claim(twins.right, resource, owner) IN
       twins' = [kind |-> twins.kind, left |-> l.reg, right |-> r.reg,
                 left_result |-> l.result, right_result |-> r.result,
                 restored |-> twins.restored,
                 claims |-> twins.claims + 1]
    /\ UNCHANGED <<store_vars, bus_vars, daemon_vars, user_vars, lc, rr, er, caller, core>>

\* left.claim(name, owner, requested_port) and the same on right
TwinEndpointClaim(name, owner, requested_port) ==
    /\ twins.kind = "EndpointRegistry"
    /\ twins.claims < MaxTwinClaims
    /\ \E l \in endpoint_claim(twins.left, name, owner, requested_port),
          r \in endpoint_claim(twins.right, name, owner, requested_port) :
          twins' = [kind |-> twins.kind, left |-> l.reg, right |-> r.reg,
                    left_result |-> l.result, right_result |-> r.result,
                    restored |-> twins.restored,
                 claims |-> twins.claims + 1]
    /\ UNCHANGED <<store_vars, bus_vars, daemon_vars, user_vars, lc, rr, er, caller, core>>

\* left.release(ResourceKey::port(resource), owner) and the same on right
TwinResourceRelease(resource, owner) ==
    /\ twins.kind = "ResourceRegistry"
    /\ twins.claims < MaxTwinClaims
    /\ LET l == release(twins.left, resource, owner)
           r == release(twins.right, resource, owner) IN
       twins' = [twins EXCEPT !.left = l.reg, !.right = r.reg,
                              !.left_result = l.result, !.right_result = r.result,
                              !.claims = @ + 1]
    /\ UNCHANGED <<store_vars, bus_vars, daemon_vars, user_vars, lc, rr, er, caller, core>>

\* left.release(name, owner) and the same on right
TwinEndpointRelease(name, owner) ==
    /\ twins.kind = "EndpointRegistry"
    /\ twins.claims < MaxTwinClaims
    /\ LET l == endpoint_release(twins.left, name, owner)
           r == endpoint_release(twins.right, name, owner) IN
       twins' = [twins EXCEPT !.left = l.reg, !.right = r.reg,
                              !.left_result = l.result, !.right_result = r.result,
                              !.claims = @ + 1]
    /\ UNCHANGED <<store_vars, bus_vars, daemon_vars, user_vars, lc, rr, er, caller, core>>

\* right is replaced by a fresh registry of the same range that imports what
\* left exports: restored.import_leases(source.export_leases())
TwinExportImport ==
    /\ ~twins.restored
    /\ twins.claims < MaxTwinClaims
    /\ twins' = [twins EXCEPT
          !.right = IF twins.kind = "ResourceRegistry"
                    THEN import_leases(EmptyRegistry, export_leases(twins.left))
                    ELSE endpoint_import_leases(EmptyEndpointRegistry,
                                                endpoint_export_leases(twins.left)),
          !.left_result = [kind |-> "Restored"],
          !.right_result = [kind |-> "Restored"],
          !.restored = TRUE,
          !.claims = @ + 1]
    /\ UNCHANGED <<store_vars, bus_vars, daemon_vars, user_vars, lc, rr, er, caller, core>>

(***************************************************************************)
(* stead-core: a contract, the operations of Contract and the commands     *)
(***************************************************************************)
NoCoreCall == [op |-> "", ok |-> TRUE, path |-> << >>]

NewCore == [contract |-> core_new, call |-> NoCoreCall]

\* the contract after an operation of Contract, and what the operation did
CoreReturned(op, r) ==
    [contract |-> r.contract,
     call |-> [op |-> op, ok |-> r.ok,
               path |-> IF r.contract.status = core.contract.status
                        THEN <<core.contract.status>>
                        ELSE <<core.contract.status, r.contract.status>>]]

\* the stored contract after a command
CommandReturned(op, r) ==
    [contract |-> r.contract, call |-> [op |-> op, ok |-> r.ok, path |-> r.path]]

CoreTransitionTo(target) ==
    /\ core' = CoreReturned("transition_to", core_transition_to(core.contract, target))
    /\ UNCHANGED <<store_vars, bus_vars, daemon_vars, user_vars, lc, registry_vars, caller>>

CoreMarkReady ==
    /\ core' = CoreReturned("mark_ready", core_mark_ready(core.contract))
    /\ UNCHANGED <<store_vars, bus_vars, daemon_vars, user_vars, lc, registry_vars, caller>>

CoreClaim(owner) ==
    /\ core' = CoreReturned("claim", core_claim(core.contract, owner))
    /\ UNCHANGED <<store_vars, bus_vars, daemon_vars, user_vars, lc, registry_vars, caller>>

CoreUnclaim ==
    /\ core' = CoreReturned("unclaim", core_unclaim(core.contract))
    /\ UNCHANGED <<store_vars, bus_vars, daemon_vars, user_vars, lc, registry_vars, caller>>

CoreStart ==
    /\ core' = CoreReturned("start", core_start(core.contract))
    /\ UNCHANGED <<store_vars, bus_vars, daemon_vars, user_vars, lc, registry_vars, caller>>

CoreBeginVerify ==
    /\ core' = CoreReturned("begin_verify", core_begin_verify(core.contract))
    /\ UNCHANGED <<store_vars, bus_vars, daemon_vars, user_vars, lc, registry_vars, caller>>

CoreComplete(passed) ==
    /\ core' = CoreReturned("complete", core_complete(core.contract, passed))
    /\ UNCHANGED <<store_vars, bus_vars, daemon_vars, user_vars, lc, registry_vars, caller>>

CoreCancel ==
    /\ core' = CoreReturned("cancel", core_cancel(core.contract))
    /\ UNCHANGED <<store_vars, bus_vars, daemon_vars, user_vars, lc, registry_vars, caller>>

CommandClaim(owner) ==
    /\ core' = CommandReturned("claim command", claim_execute(core.contract, owner))
    /\ UNCHANGED <<store_vars, bus_vars, daemon_vars, user_vars, lc, registry_vars, caller>>

CommandCancel ==
    /\ core' = CommandReturned("cancel command", cancel_execute(core.contract))
    /\ UNCHANGED <<store_vars, bus_vars, daemon_vars, user_vars, lc, registry_vars, caller>>

CommandVerify(passed) ==
    /\ core' = CommandReturned("verify command",
                             verify_execute(core.contract, passed))
    /\ UNCHANGED <<store_vars, bus_vars, daemon_vars, user_vars, lc, registry_vars, caller>>

CommandRun(passed) ==
    /\ core' = CommandReturned("run command", run_execute(passed))
    /\ UNCHANGED <<store_vars, bus_vars, daemon_vars, user_vars, lc, registry_vars, caller>>

(***************************************************************************)
(* A database left by earlier requests: each contract was created and      *)
(* taken, one recorded transition at a time, to the status it has          *)
(***************************************************************************)
\* the statuses a contract is taken through, after its creation, to be at status
PathTo(status) ==
    CASE status = "Pending"     -> << >>
      [] status = "Ready"       -> << >>
      [] status = "Claimed"     -> <<"Claimed">>
      [] status = "Executing"   -> <<"Claimed", "Executing">>
      [] status = "Verifying"   -> <<"Claimed", "Executing", "Verifying">>
      [] status = "Completed"   -> <<"Claimed", "Executing", "Verifying", "Completed">>
      [] status = "Failed"      -> <<"Claimed", "Executing", "Failed">>
      [] status = "RollingBack" -> <<"Claimed", "Executing", "Failed", "RollingBack">>
      [] status = "RolledBack"  ->
            <<"Claimed", "Executing", "Failed", "RollingBack", "RolledBack">>
      [] status = "Cancelled"   -> <<"Cancelled">>

RECURSIVE Recorded(_, _, _)
\* the database after TransitionContract requests taking contract along path
Recorded(db, contract, path) ==
    IF path = << >> THEN db
    ELSE LET r == contract_transition_to(contract, path[1]) IN
         Recorded(record_transition(db, r.contract, Unwrap(r.event), "none").db,
                  r.contract, Tail(path))

\* the database after CreateContract for id and the requests taking it to status
StoredAt(db, id, status) ==
    LET contract == ContractNew(id, IF status = "Pending" THEN <<"c1">> ELSE << >>)
    IN Recorded(save_contract(db, contract), contract, PathTo(status))

(***************************************************************************)
(* Specifications                                                          *)
(***************************************************************************)
\* Daemon::with_port_range on a fresh workspace: empty database, no
\* resources.json, EventState::default()
InitDaemon ==
    /\ contracts = EmptyDb.contracts
    /\ contract_events = EmptyDb.contract_events
    /\ decision_items = EmptyDb.decision_items
    /\ resources = import_leases(EmptyRegistry, {})
    /\ resources_json = None
    /\ next_cursor = 0
    /\ history = << >>
    /\ subscribers = << >>
    /\ channels = << >>
    /\ h = [t \in Threads |-> Idle]
    /\ client = NewClient

InitUser == user = NewUser /\ store_ops = 0

InitLc == lc = [status |-> "Ready", call |-> NoCall]

InitRegistries ==
    /\ rr = NewResourceUser
    /\ er = NewEndpointUser
    /\ twins = NewTwins("ResourceRegistry")

InitCore == core = NewCore

\* The requests of a run come from a human at the command line
InitCaller == caller = "Human"

Init ==
    InitDaemon /\ requests = MaxRequests /\ InitUser /\ InitLc /\ InitRegistries /\ InitCaller /\ InitCore

HandlerNext ==
    \/ \E t \in Threads, id \in Ids, blocked_by \in BlockedBys, fault \in {"none", "insert"} :
          CreateContractSave(t, id, blocked_by, fault)
    \/ \E t \in Threads : CreateContractPublish(t)
    \/ \E t \in Threads, id \in Ids, to \in ContractStatus : TransitionContractLoad(t, id, to)
    \/ \E t \in Threads, fault \in Faults : TransitionContractRecord(t, fault)
    \/ \E t \in Threads : TransitionContractPublish(t)
    \/ \E t \in Threads, resource \in Ports, owner \in Owners :
          ClaimResourceLocked(t, resource, owner)
    \/ \E t \in Threads, written \in BOOLEAN : ClaimResourcePersist(t, written)
    \/ \E t \in Threads : ClaimResourcePublish(t)

ClientNext ==
    \/ \E c \in 0..MaxStreamRequests : ClientObserve(c)
    \/ ClientSubscribe
    \/ ClientReplay
    \/ ClientDrop

\* The daemon serving requests on concurrent threads
Next == HandlerNext

Spec == Init /\ [][Next]_vars

\* The daemon serving requests while an event-stream client reconnects
InitStream ==
    /\ InitDaemon /\ requests = MaxStreamRequests /\ InitUser /\ InitLc /\ InitRegistries
    /\ InitCaller /\ InitCore

NextStream == HandlerNext \/ ClientNext

SpecStream == InitStream /\ [][NextStream]_vars

\* A stead-core contract under the operations of Contract and the commands
NextCore ==
    \/ \E target \in ContractStatus : CoreTransitionTo(target)
    \/ CoreMarkReady
    \/ \E owner \in Owners : CoreClaim(owner)
    \/ CoreUnclaim
    \/ CoreStart
    \/ CoreBeginVerify
    \/ \E passed \in BOOLEAN : CoreComplete(passed)
    \/ CoreCancel
    \/ \E owner \in Owners : CommandClaim(owner)
    \/ CommandCancel
    \/ \E passed \in BOOLEAN : CommandVerify(passed)
    \/ \E passed \in BOOLEAN : CommandRun(passed)

\* Contract::new("task", "verify") saved to the storage
InitCommands ==
    InitDaemon /\ requests = 0 /\ InitUser /\ InitLc /\ InitRegistries /\ InitCaller /\ InitCore

SpecCore == InitCommands /\ [][NextCore]_vars

\* The daemon, opened on a database with contracts in any statuses, counting
\* the attention tiers while it serves transition requests
InitAttention ==
    /\ \E first, second \in ContractStatus :
          LET db == StoredAt(StoredAt(EmptyDb, "c1", first), "c2", second) IN
          /\ contracts = db.contracts
          /\ contract_events = db.contract_events
          /\ decision_items = db.decision_items
    /\ resources = import_leases(EmptyRegistry, {})
    /\ resources_json = None
    /\ next_cursor = 0
    /\ history = << >>
    /\ subscribers = << >>
    /\ channels = << >>
    /\ h = [t \in Threads |-> Idle]
    /\ client = NewClient
    /\ requests = MaxAttentionRequests
    /\ InitUser /\ InitLc /\ InitRegistries /\ InitCaller /\ InitCore

NextAttention ==
    \/ \E t \in Threads : AttentionStatusBegin(t)
    \/ \E t \in Threads : AttentionStatusNext(t)
    \/ \E t \in Threads, id \in Ids, to \in ContractStatus : TransitionContractLoad(t, id, to)
    \/ \E t \in Threads, fault \in Faults : TransitionContractRecord(t, fault)
    \/ \E t \in Threads : TransitionContractPublish(t)

SpecAttention == InitAttention /\ [][NextAttention]_vars

\* The event bus with receivers coming and going
InitBus ==
    InitDaemon /\ requests = 0 /\ InitUser /\ InitLc /\ InitRegistries /\ InitCaller /\ InitCore

NextBus ==
    \/ \E ch \in BusChannels : BusSubscribe(ch)
    \/ \E id \in Ids : BusPublish(ContractCreated(id))
    \/ \E ch \in BusChannels : BusDrop(ch)

SpecBus == InitBus /\ [][NextBus]_vars

\* The daemon serving the requests of one caller, of any actor kind
InitActors ==
    /\ InitDaemon /\ requests = MaxActorRequests /\ InitUser /\ InitLc /\ InitRegistries
    /\ caller \in Actors
    /\ InitCore

SpecActors == InitActors /\ [][Next]_vars

NextStore ==
    \/ \E id \in Ids, blocked_by \in BlockedBys : UserNew(id, blocked_by)
    \/ \E id \in Ids : UserSave(id)
    \/ \E id \in Ids, target \in ContractStatus : UserTransition(id, target)
    \/ \E id \in Ids, fault \in Faults : UserRecord(id, fault)

InitStore ==
    InitDaemon /\ requests = 0 /\ InitUser /\ InitLc /\ InitRegistries /\ InitCaller /\ InitCore

SpecStore == InitStore /\ [][NextStore]_vars

\* The direct store user also filing decision items
NextDecisions ==
    \/ NextStore
    \/ \E id \in Ids, summary \in Summaries : UserCreateDecision(id, summary)

SpecDecisions == InitStore /\ [][NextDecisions]_vars

InitLifecycle ==
    /\ InitDaemon
    /\ requests = 0
    /\ InitUser
    /\ lc \in [status : ContractStatus, call : {NoCall}]
    /\ InitRegistries
    /\ InitCaller /\ InitCore

NextLifecycle ==
    \/ \E target \in ContractStatus : LcTransitionTo(target)
    \/ \E passed \in BOOLEAN : LcFinishVerification(passed)
    \/ LcCancel
    \/ \E action \in TransitionActions, actor \in Actors : LcIsAllowedFor(action, actor)

SpecLifecycle == InitLifecycle /\ [][NextLifecycle]_vars

\* A caller claiming, releasing and draining on one ResourceRegistry
InitResources == InitStore

NextResources ==
    \/ \E resource \in RequestPorts, owner \in Owners : RrClaim(resource, owner)
    \/ \E resource \in RequestPorts, owner \in Owners : RrRelease(resource, owner)
    \/ RrDrainEvents

SpecResources == InitResources /\ [][NextResources]_vars

\* A caller claiming, releasing and draining on one EndpointRegistry
InitEndpoints == InitStore

NextEndpoints ==
    \/ \E name \in EndpointNames, owner \in Owners, requested_port \in RequestedPorts :
          ErClaim(name, owner, requested_port)
    \/ \E name \in EndpointNames, owner \in Owners : ErRelease(name, owner)
    \/ ErDrainEvents

SpecEndpoints == InitEndpoints /\ [][NextEndpoints]_vars

\* A pair of fresh registries of either kind, fed the same claim sequence
InitTwins ==
    /\ InitDaemon
    /\ requests = 0
    /\ InitUser
    /\ InitLc
    /\ rr = NewResourceUser
    /\ er = NewEndpointUser
    /\ twins \in {NewTwins(kind) : kind \in RegistryKinds}
    /\ InitCaller /\ InitCore

NextTwins ==
    \/ \E resource \in RequestPorts, owner \in Owners :
          TwinResourceClaim(resource, owner)
    \/ \E name \in EndpointNames, owner \in Owners, requested_port \in RequestedPorts :
          TwinEndpointClaim(name, owner, requested_port)
    \/ \E resource \in RequestPorts, owner \in Owners :
          TwinResourceRelease(resource, owner)
    \/ \E name \in EndpointNames, owner \in Owners : TwinEndpointRelease(name, owner)
    \/ TwinExportImport

SpecTwins == InitTwins /\ [][NextTwins]_vars

(***************************************************************************)
(* Properties                                                              *)
(***************************************************************************)
\* The allowed edges of the lifecycle, as the design states them
AllowedEdges ==
    {<<"Pending", "Ready">>, <<"Pending", "Cancelled">>,
     <<"Ready", "Claimed">>, <<"Ready", "Cancelled">>,
     <<"Claimed", "Executing">>, <<"Claimed", "Ready">>, <<"Claimed", "Cancelled">>,
     <<"Executing", "Verifying">>, <<"Executing", "Failed">>, <<"Executing", "Cancelled">>,
     <<"Verifying", "Completed">>, <<"Verifying", "Failed">>,
     <<"Failed", "Ready">>, <<"Failed", "RollingBack">>, <<"Failed", "Cancelled">>,
     <<"RollingBack", "RolledBack">>, <<"RollingBack", "Failed">>}

TerminalStatuses == {"Completed", "RolledBack", "Cancelled"}
TerminalDbStrs == {"completed", "rolled_back", "cancelled"}

\* C1: for every pair (from, to) of the ten statuses, can_transition_to is
\* true exactly on the 17 allowed edges, a transition_to call succeeds (and
\* moves the status) exactly on them, and the three terminal statuses have no
\* outgoing edge.
C1_TransitionMatrix ==
    /\ \A to \in ContractStatus :
          can_transition_to(lc.status, to) <=> <<lc.status, to>> \in AllowedEdges
    /\ lc.status \in TerminalStatuses => valid_transitions(lc.status) = << >>
    /\ lc.call.op = "transition_to" =>
          /\ lc.call.ok <=> <<lc.call.from, lc.call.target>> \in AllowedEdges
          /\ lc.status = IF lc.call.ok THEN lc.call.target ELSE lc.call.from

C1_Witness ==
    /\ lc.call.op = "transition_to"
    /\ lc.call.ok
    /\ lc.call.from = "Failed"
    /\ lc.status = "RollingBack"

\* C2: under any interleaving of TransitionContract handlers, a step that
\* records a transition never changes the row of a contract whose stored
\* status is Completed, RolledBack or Cancelled.
C2_TerminalIsFinal ==
    [][\A id \in DOMAIN contracts :
          (/\ contracts[id].status \in TerminalDbStrs
           /\ Len(contract_events') > Len(contract_events))
          => contracts'[id] = contracts[id]]_vars

\* C3: a contract's row changes only together with an appended contract
\* event (a successful TransitionContract): any other step, CreateContract on
\* an existing id included, leaves every existing row and the event log as
\* they were, and no step removes a row.
C3_OnlyTransitionsMutate ==
    [][\A id \in DOMAIN contracts :
          /\ id \in DOMAIN contracts'
          /\ contract_events' = contract_events => contracts'[id] = contracts[id]]_vars

\* C4: for every contract that has at least one event, rebuilding it from its
\* event log gives the status and blocked_by of its snapshot.
C4_RebuildEqualsSnapshot ==
    \A id \in Ids :
        EventRowsOf(Db, id) # << >> =>
            rebuild_contract_from_events(Db, id) = load_contract(Db, id)

\* C5: a record_transition call that returns an error leaves the contracts
\* table and the contract_events table exactly as they were; one that
\* succeeds appends one event row and rewrites the row of that contract with
\* the status and blocked_by of the contract passed in.
C5_RecordTransitionAtomic ==
    [][(user'.last.op = "record_transition" /\ store_ops' # store_ops) =>
          IF user'.last.ok
          THEN /\ Len(contract_events') = Len(contract_events) + 1
               /\ SubSeq(contract_events', 1, Len(contract_events)) = contract_events
               /\ LET row == contract_events'[Len(contract_events')] IN
                  /\ row.contract_id \in DOMAIN contracts'
                  /\ contracts'[row.contract_id].blocked_by = row.blocked_by_snapshot
                  /\ contracts'[row.contract_id].status =
                        as_db_str(user.local[row.contract_id].status)
          ELSE /\ contracts' = contracts
               /\ contract_events' = contract_events]_vars

\* An event insert or commit was rejected for a contract whose stored row
\* differs from the contract passed in: the UPDATE had run and was undone.
C5_Witness ==
    /\ user.last.op = "record_transition"
    /\ ~user.last.ok
    /\ user.last.err = "SqliteFailure"
    /\ IsSome(user.event)
    /\ LET id == Unwrap(user.event).contract_id IN
       /\ id \in DOMAIN contracts
       /\ id \in DOMAIN user.local
       /\ contracts[id].status # as_db_str(user.local[id].status)

Succeeded(t) == h[t].pc = "done" /\ h[t].result = "ok"

\* C6 as stated: every succeeding CreateContract, TransitionContract or
\* ClaimResource request publishes exactly one event.
C6_OneEventPerMutation ==
    \A t \in Threads :
        Succeeded(t) /\ h[t].req.kind \in {"CreateContract", "TransitionContract", "ClaimResource"}
        => Len(h[t].cursors) = 1

ExpectedTag(req) ==
    CASE req.kind = "CreateContract" -> "ContractCreated"
      [] req.kind = "TransitionContract" -> "ContractTransitioned"
      [] req.kind = "ClaimResource" -> "ResourceConflictEscalated"

\* C6 amended: every succeeding CreateContract or TransitionContract request
\* publishes exactly one event, and a succeeding ClaimResource request
\* publishes exactly one when its result is Conflict and none otherwise; each
\* publication takes the next cursor and appends one event of the request's
\* kind to the history.
C6_OneEventPerContractMutation ==
    /\ Len(history) = next_cursor
    /\ \A t \in Threads :
          Succeeded(t) =>
            /\ Len(h[t].cursors) =
                 IF h[t].req.kind = "ClaimResource" /\ Unwrap(h[t].claim).kind # "Conflict"
                 THEN 0 ELSE 1
            /\ \A i \in DOMAIN h[t].cursors :
                  /\ h[t].cursors[i] \in DOMAIN history
                  /\ history[h[t].cursors[i]].cursor = h[t].cursors[i]
                  /\ history[h[t].cursors[i]].kind.tag = ExpectedTag(h[t].req)

C6_Witness ==
    \E t \in Threads :
        /\ Succeeded(t)
        /\ h[t].req.kind = "ClaimResource"
        /\ Unwrap(h[t].claim).kind = "Conflict"
        /\ Len(h[t].cursors) = 1
        /\ history[h[t].cursors[1]].kind.requested_by = h[t].req.owner

\* C7: the history holds the events with cursors 1, 2, ..., next_cursor in
\* that order.
C7_CursorsAreDense ==
    /\ Len(history) = next_cursor
    /\ \A i \in DOMAIN history : history[i].cursor = i

\* Both threads are about to publish and one event is already out.
C7_Witness ==
    /\ next_cursor >= 1
    /\ \A t \in Threads : h[t].pc \in {"publish", "publish_resource"}

\* C8: once the client has subscribed and then replayed from c, every event
\* of the history with cursor greater than c is in the replay result or was
\* sent on the client's channel.
C8_NoLoss ==
    client.pc = "replayed" =>
        \A i \in DOMAIN history :
            history[i].cursor > client.c =>
                \/ history[i] \in Range(client.replay)
                \/ history[i] \in Range(channels[ClientChannel].queue)

\* One event reached the client only through the replay, another only
\* through the channel.
C8_Witness ==
    /\ client.pc = "replayed"
    /\ \E e \in Range(client.replay) : e \notin Range(channels[ClientChannel].queue)
    /\ \E e \in Range(channels[ClientChannel].queue) : e \notin Range(client.replay)

Quiescent == \A t \in Threads : Free(t)

TransitionsPublished(id) ==
    LET evs == SelectSeq(history, LAMBDA e : e.kind.tag = "ContractTransitioned" /\ e.kind.id = id)
    IN [i \in DOMAIN evs |-> <<evs[i].kind.from, evs[i].kind.to>>]

TransitionsLogged(id) ==
    LET evs == list_events(Db, id) IN [i \in DOMAIN evs |-> <<evs[i].from, evs[i].to>>]

\* C9: the ContractTransitioned events of a contract appear in the daemon
\* history in the order of that contract's rows in the contract event log
\* (compared once no handler is in flight).
C9_CursorOrderIsCommitOrder ==
    Quiescent => \A id \in Ids : TransitionsPublished(id) = TransitionsLogged(id)

\* C10: replay_from(c) returns exactly the events of the history with cursor
\* greater than c, in increasing cursor order, and leaves the event bus as it
\* was; replay_from(0) is the whole history, replay_from(next_cursor) is empty.
C10_ReplayFrom ==
    [][(client.pc = "subscribed" /\ client'.pc = "replayed") =>
          LET replay == client'.replay IN
          /\ Range(replay) = {e \in Range(history) : e.cursor > client.c}
          /\ \A i, j \in DOMAIN replay : i < j => replay[i].cursor < replay[j].cursor
          /\ client.c = 0 => replay = history
          /\ client.c = next_cursor => replay = << >>
          /\ UNCHANGED bus_vars]_vars

\* A replay from a cursor inside the history: part of it, not all of it.
C10_Witness ==
    /\ client.pc = "replayed"
    /\ client.c >= 1
    /\ client.replay # << >>
    /\ client.replay[1].cursor = client.c + 1

(***************************************************************************)
(* ResourceRegistry                                                        *)
(***************************************************************************)
InRange(p) == PortStart <= p /\ p <= PortEnd

Unleased(reg, ps) == {q \in ps : q \notin DOMAIN reg.leases}

Lowest(ps) == CHOOSE p \in ps : \A q \in ps : p <= q

\* The last call was claim(Port(p), owner) and found p leased to another owner
Contended(c) ==
    /\ c.op = "claim"
    /\ c.resource \in DOMAIN c.before.leases
    /\ c.before.leases[c.resource] /= c.owner

\* C11: after any sequence of claim and release calls on a registry created
\* empty, no two leases have the same ResourceKey and every leased port lies
\* in [start, end].
C11_OneLeasePerKeyInRange ==
    /\ \A l1, l2 \in export_leases(rr.reg) : l1.resource = l2.resource => l1 = l2
    /\ \A l \in export_leases(rr.reg) : InRange(l.resource)

\* C13: a claim of Port(p) that finds p leased to another owner while some
\* port of (p+1 ..= end) is unleased returns Negotiated with the smallest such
\* port q assigned and the lease on p as held_by; the lease map gains exactly
\* the lease (q, owner), and q > p.
C13_NegotiatesLowestGreaterPort ==
    LET c == rr.call IN
    (Contended(c) /\ Unleased(c.before, (c.resource + 1)..PortEnd) /= {}) =>
        LET q == Lowest(Unleased(c.before, (c.resource + 1)..PortEnd)) IN
        /\ c.result.kind = "Negotiated"
        /\ c.result.requested = c.resource
        /\ c.result.assigned = Some(Lease(q, c.owner))
        /\ c.result.held_by = Some(Lease(c.resource, c.before.leases[c.resource]))
        /\ export_leases(rr.reg) = export_leases(c.before) \cup {Lease(q, c.owner)}
        /\ q > c.resource

\* C14: claim returns Conflict exactly when the requested port is leased to
\* another owner and no port of (requested+1 ..= end) is unleased; the lease
\* map is then unchanged and exactly one ConflictEscalated event (requested,
\* requested_by the requester, held_by the holder's owner, reason
\* "port_range_exhausted") is queued; a Claimed or Negotiated result queues
\* no event.
C14_ConflictIffExhausted ==
    LET c == rr.call IN
    c.op = "claim" =>
        /\ c.result.kind = "Conflict" <=>
              (Contended(c) /\ Unleased(c.before, (c.resource + 1)..PortEnd) = {})
        /\ c.result.kind = "Conflict" =>
              /\ rr.reg.leases = c.before.leases
              /\ rr.reg.events =
                    Append(c.before.events,
                           [requested |-> c.resource,
                            requested_by |-> c.owner,
                            held_by |-> c.before.leases[c.resource],
                            reason |-> "port_range_exhausted"])
        /\ c.result.kind \in {"Claimed", "Negotiated"} =>
              rr.reg.events = c.before.events

\* C15: a claim by the owner that already holds the lease returns Claimed
\* with that lease and changes neither the lease map nor the event queue,
\* also when the call before it was the same call.
C15_OwnClaimIsIdempotent ==
    LET c == rr.call IN
    (c.op = "claim" /\ c.resource \in DOMAIN c.before.leases
       /\ c.before.leases[c.resource] = c.owner) =>
        /\ c.result.kind = "Claimed"
        /\ c.result.assigned = Some(Lease(c.resource, c.owner))
        /\ rr.reg = c.before

\* The same claim twice in a row, the second one finding the lease held
C15_Witness ==
    /\ rr.call.op = "claim"
    /\ InRange(rr.call.resource)
    /\ rr.prev.op = "claim"
    /\ rr.prev.resource = rr.call.resource
    /\ rr.prev.owner = rr.call.owner
    /\ rr.prev.before = rr.call.before
    /\ rr.prev.result = rr.call.result
    /\ rr.call.resource \in DOMAIN rr.call.before.leases
    /\ rr.call.before.leases[rr.call.resource] = rr.call.owner
    /\ rr.call.result.kind = "Claimed"

\* C16: release(r, owner) removes a lease only when r is leased to the
\* caller: it then returns that lease and removes it and nothing else; with
\* no lease on r it returns NotFound, with another holder it returns
\* NotOwner{expected_owner the holder, attempted_by the caller}, and both
\* leave the lease map as it was. A claim of r by another owner that follows
\* a successful release returns Claimed.
C16_OnlyOwnerReleases ==
    LET c == rr.call
        p == rr.prev IN
    /\ c.op = "release" =>
          /\ rr.reg.events = c.before.events
          /\ IF c.resource \notin DOMAIN c.before.leases
             THEN /\ c.result = [kind |-> "NotFound", resource |-> c.resource]
                  /\ rr.reg.leases = c.before.leases
             ELSE IF c.before.leases[c.resource] /= c.owner
             THEN /\ c.result = [kind |-> "NotOwner", resource |-> c.resource,
                                 expected_owner |-> c.before.leases[c.resource],
                                 attempted_by |-> c.owner]
                  /\ rr.reg.leases = c.before.leases
             ELSE /\ c.result = [kind |-> "Ok", lease |-> Lease(c.resource, c.owner)]
                  /\ export_leases(rr.reg) =
                        export_leases(c.before) \ {Lease(c.resource, c.owner)}
    /\ (/\ p.op = "release"
        /\ p.result.kind = "Ok"
        /\ c.op = "claim"
        /\ c.resource = p.resource
        /\ c.owner /= p.owner) =>
          /\ c.result.kind = "Claimed"
          /\ c.result.assigned = Some(Lease(c.resource, c.owner))

\* The owner released a lease that stood beside another one, and another
\* owner then claimed the same port
C16_Witness ==
    /\ rr.prev.op = "release"
    /\ rr.prev.result.kind = "Ok"
    /\ Cardinality(DOMAIN rr.prev.before.leases) >= 2
    /\ rr.call.op = "claim"
    /\ rr.call.resource = rr.prev.resource
    /\ rr.call.owner /= rr.prev.owner
    /\ InRange(rr.call.resource)

(***************************************************************************)
(* EndpointRegistry                                                        *)
(***************************************************************************)
EndpointPorts == EndpointStart..EndpointEnd

FreePorts(reg) == {p \in EndpointPorts : \A l \in LeaseValues(reg) : l.port /= p}

\* requested_port.unwrap_or(start)
Requested(c) ==
    IF c.requested_port = None THEN EndpointStart ELSE c.requested_port[1]

\* The last call was a claim of a name that had no lease
ClaimOfNewName(c) == c.op = "claim" /\ c.name \notin DOMAIN c.before.leases_by_name

\* The lease map after the call is the one before it plus lease
Gained(c, lease) ==
    /\ LeaseValues(er.reg) = LeaseValues(c.before) \cup {lease}
    /\ DOMAIN er.reg.leases_by_name = DOMAIN c.before.leases_by_name \cup {lease.name}
    /\ er.reg.leases_by_name[lease.name] = lease

\* C12: after any sequence of claim and release calls on a registry created
\* empty, no two leases share a name, no two leases share a port, and every
\* leased port lies in [start, end].
C12_NamesAndPortsUniqueInRange ==
    /\ \A n \in DOMAIN er.reg.leases_by_name : er.reg.leases_by_name[n].name = n
    /\ \A l1, l2 \in LeaseValues(er.reg) :
          (l1.name = l2.name \/ l1.port = l2.port) => l1 = l2
    /\ \A l \in LeaseValues(er.reg) : l.port \in EndpointPorts

\* Every port of the range is leased, the last one by negotiation
C12_Witness ==
    /\ {l.port : l \in LeaseValues(er.reg)} = EndpointPorts
    /\ er.call.op = "claim"
    /\ er.call.result.kind = "Negotiated"

\* C18: a claim of a name by the owner that holds its lease returns Claimed
\* with exactly that lease, at the port it was first assigned whatever port
\* is requested now, and changes neither the lease map nor the event queue.
C18_ReclaimKeepsLease ==
    LET c == er.call IN
    (/\ c.op = "claim"
     /\ c.name \in DOMAIN c.before.leases_by_name
     /\ c.before.leases_by_name[c.name].owner = c.owner) =>
        /\ c.result.kind = "Claimed"
        /\ c.result.assigned = Some(c.before.leases_by_name[c.name])
        /\ er.reg = c.before

\* The owner reclaimed its name asking for another port, which was free
C18_Witness ==
    LET c == er.call IN
    /\ c.op = "claim"
    /\ c.name \in DOMAIN c.before.leases_by_name
    /\ c.before.leases_by_name[c.name].owner = c.owner
    /\ Requested(c) /= c.before.leases_by_name[c.name].port
    /\ Requested(c) \in FreePorts(c.before)
    /\ c.result.kind = "Claimed"

\* The first free port met going r+1, ..., end and then start, ..., r-1
ScanFrom(reg, r) ==
    IF \E p \in FreePorts(reg) : p > r
    THEN Lowest({p \in FreePorts(reg) : p > r})
    ELSE Lowest({p \in FreePorts(reg) : p < r})

C20_ExhaustedOnlyWhenFull ==
    LET c == er.call IN
    ClaimOfNewName(c) =>
        /\ (c.result.kind = "Conflict" \/ er.reg.events /= c.before.events) =>
              /\ FreePorts(c.before) = {}
              /\ c.result.kind = "Conflict"
              /\ er.reg.events =
                    Append(c.before.events,
                           [name |-> c.name, owner |-> c.owner,
                            requested_port |-> Requested(c),
                            reason |-> "endpoint_range_exhausted"])
        /\ FreePorts(c.before) /= {} =>
              /\ c.result.kind \in {"Claimed", "Negotiated"}
              /\ c.result.assigned /= None
              /\ er.reg.events = c.before.events

(***************************************************************************)
(* Determinism                                                             *)
(***************************************************************************)
\* C17: two fresh registries of the same kind and port range, given the same
\* ordered sequence of claim requests, return identical results at every
\* step and hold identical lease sets: the assigned ports depend on the
\* request sequence alone.
C17_SameClaimsSameLeases ==
    ~twins.restored =>
        /\ twins.left_result = twins.right_result
        /\ twins.kind = "ResourceRegistry" =>
              export_leases(twins.left) = export_leases(twins.right)
        /\ twins.kind = "EndpointRegistry" =>
              LeaseValues(twins.left) = LeaseValues(twins.right)

\* Both endpoint registries were asked for a leased port by a new name and
\* negotiated the same port, naming the same holder
C17_Witness ==
    /\ ~twins.restored
    /\ twins.kind = "EndpointRegistry"
    /\ twins.claims >= 2
    /\ twins.left_result.kind = "Negotiated"
    /\ twins.right_result.kind = "Negotiated"
    /\ twins.left_result.assigned[1].port = twins.right_result.assigned[1].port
    /\ twins.left_result.assigned[1].port < twins.left_result.requested_port

(***************************************************************************)
(* EndpointRegistry::release                                               *)
(***************************************************************************)
\* C21: release(name, owner) removes the lease only when name is leased to
\* the caller, returning it; an unknown name yields NotFound and another
\* holder NotOwner{name, expected_owner, attempted_by}, both leaving the
\* lease map as it was; after a successful release a claim of the released
\* port, under the released name or another free one, is granted.
C21_OnlyOwnerReleasesEndpoint ==
    LET c == er.call
        p == er.prev IN
    /\ c.op = "release" =>
          /\ er.reg.events = c.before.events
          /\ IF c.name \notin DOMAIN c.before.leases_by_name
             THEN /\ c.result = [kind |-> "NotFound", name |-> c.name]
                  /\ er.reg.leases_by_name = c.before.leases_by_name
             ELSE IF c.before.leases_by_name[c.name].owner /= c.owner
             THEN /\ c.result = [kind |-> "NotOwner", name |-> c.name,
                                 expected_owner |-> c.before.leases_by_name[c.name].owner,
                                 attempted_by |-> c.owner]
                  /\ er.reg.leases_by_name = c.before.leases_by_name
             ELSE /\ c.result = [kind |-> "Ok", lease |-> c.before.leases_by_name[c.name]]
                  /\ LeaseValues(er.reg) =
                        LeaseValues(c.before) \ {c.before.leases_by_name[c.name]}
                  /\ DOMAIN er.reg.leases_by_name =
                        DOMAIN c.before.leases_by_name \ {c.name}
    /\ (/\ p.op = "release"
        /\ p.result.kind = "Ok"
        /\ ClaimOfNewName(c)
        /\ Requested(c) = p.result.lease.port) =>
          /\ c.result.kind = "Claimed"
          /\ c.result.assigned = Some(EndpointLease(c.name, c.owner, p.result.lease.port))
          /\ er.reg.leases_by_name[c.name] = EndpointLease(c.name, c.owner, p.result.lease.port)

\* The owner released a lease and another owner claimed the same name at the
\* same port
C21_Witness ==
    /\ er.prev.op = "release"
    /\ er.prev.result.kind = "Ok"
    /\ er.call.op = "claim"
    /\ er.call.name = er.prev.name
    /\ er.call.owner /= er.prev.owner
    /\ er.call.result.kind = "Claimed"
    /\ er.call.result.assigned[1].port = er.prev.result.lease.port

(***************************************************************************)
(* export_leases / import_leases                                           *)
(***************************************************************************)
\* C22: for a registry reached by claim and release calls, a fresh registry
\* of the same range that imports its exported leases holds exactly the same
\* leases (keys or names, owners, ports), and every later claim or release
\* returns the same result on the restored registry as on the original.
C22_ExportImportRoundTrip ==
    twins.restored =>
        /\ twins.left_result = twins.right_result
        /\ IF twins.kind = "ResourceRegistry"
           THEN twins.right.leases = twins.left.leases
           ELSE twins.right.leases_by_name = twins.left.leases_by_name

\* A claim made after the round trip was negotiated, on the restored endpoint
\* registry as on the original
C22_Witness ==
    /\ twins.restored
    /\ twins.kind = "EndpointRegistry"
    /\ twins.right_result.kind = "Negotiated"
    /\ twins.left_result.kind = "Negotiated"

(***************************************************************************)
(* Persistence of the resource leases                                      *)
(***************************************************************************)
\* Every request handled so far was a ClaimResource that returned Ok
OnlyClaimsAllOk ==
    /\ Quiescent
    /\ Cardinality({t \in Threads : h[t].pc = "done"}) = MaxRequests - requests
    /\ \A t \in Threads :
          h[t].pc = "done" => h[t].req.kind = "ClaimResource" /\ h[t].result = "ok"

\* C23: once every ClaimResource request has returned Ok and none is in
\* flight, the leases stored in resources.json are the daemon's in-memory
\* leases, so a daemon reopened on the same path starts with exactly those
\* leases, also when the requests ran concurrently.
C23_FileEqualsMemory ==
    OnlyClaimsAllOk => reopened_resources(resources_json).leases = resources.leases

(***************************************************************************)
(* Rejected transition requests                                            *)
(***************************************************************************)
\* Thread t takes a TransitionContract request in this step
TakesTransition(t) ==
    /\ Free(t)
    /\ h'[t] # h[t]
    /\ h'[t].req.kind = "TransitionContract"

StoredStatus(id) == Unwrap(from_db_str(contracts[id].status))

\* C24: a TransitionContract request for an id with no stored contract
\* returns not_found, one whose (stored status, target) pair is not an
\* allowed edge returns invalid_transition, and either leaves the snapshot,
\* the contract event log, next_cursor, the history and every subscriber's
\* channel as they were.
C24_RejectedTransitionChangesNothing ==
    [][\A t \in Threads :
          TakesTransition(t) =>
            LET id == h'[t].req.id
                to == h'[t].req.to
                missing == ~HasRow(Db, id)
                illegal == HasRow(Db, id) /\ <<StoredStatus(id), to>> \notin AllowedEdges
            IN /\ missing => h'[t].pc = "done" /\ h'[t].result = "not_found"
               /\ illegal => h'[t].pc = "done" /\ h'[t].result = "invalid_transition"
               /\ h'[t].result = "not_found" => missing
               /\ h'[t].result = "invalid_transition" => illegal
               /\ (missing \/ illegal) => UNCHANGED <<store_vars, bus_vars>>
      ]_vars

\* With a subscriber listening, a request on a stored contract was rejected as
\* invalid_transition
C24_Witness ==
    /\ ClientChannel \in Range(subscribers)
    /\ channels[ClientChannel].alive
    /\ \E t \in Threads :
          /\ h[t].result = "invalid_transition"
          /\ HasRow(Db, h[t].req.id)

(***************************************************************************)
(* Actor permissions at the daemon boundary                                *)
(***************************************************************************)
\* The named actions an edge of the lifecycle stands for, as the design's
\* permission table names them
ActionsOf(from, to) ==
    IF to = "Cancelled" THEN {"Cancel"}
    ELSE CASE <<from, to>> = <<"Pending", "Ready">>          -> {"DepsMet"}
           [] <<from, to>> = <<"Ready", "Claimed">>          -> {"Claim"}
           [] <<from, to>> = <<"Claimed", "Ready">>          -> {"Unclaim"}
           [] <<from, to>> = <<"Claimed", "Executing">>      -> {"Start"}
           [] <<from, to>> = <<"Executing", "Verifying">>    -> {"Verify"}
           [] <<from, to>> = <<"Failed", "RollingBack">>     -> {"Rollback"}
           [] <<from, to>> = <<"Verifying", "Completed">>    -> {"Pass"}
           [] <<from, to>> = <<"Executing", "Failed">>       -> {"Fail"}
           [] <<from, to>> = <<"Verifying", "Failed">>       -> {"Fail"}
           [] <<from, to>> = <<"RollingBack", "RolledBack">> -> {"RollbackDone"}
           [] OTHER -> {}

\* C25: every TransitionContract request that succeeds performs an action
\* the permission table allows to the kind of actor that sent it.
C25_SuccessfulTransitionIsPermitted ==
    [][\A t \in Threads :
          (/\ h[t].pc = "publish"
           /\ h[t].req.kind = "TransitionContract"
           /\ h'[t].pc = "done"
           /\ h'[t].result = "ok")
          => LET event == Unwrap(h[t].event) IN
             \A action \in ActionsOf(event.from, event.to) : is_allowed_for(action, caller)
      ]_vars

(***************************************************************************)
(* Permissions and the lifecycle shorthands                                *)
(***************************************************************************)
\* The design's permission table: the (action, actor) pairs it allows
PermissionTable ==
    ({"DepsMet", "Pass", "Fail", "RollbackDone"} \X {"System"})
    \cup ({"Claim", "Unclaim", "Start", "Verify", "Rollback"} \X {"Agent", "Human"})
    \cup ({"Cancel"} \X {"Human"})

\* C26: is_allowed_for(action, actor) is the permission table on all 30
\* pairs of an action and an actor kind, and calling it changes nothing.
C26_PermissionTable ==
    /\ \A action \in TransitionActions, actor \in Actors :
          is_allowed_for(action, actor) <=> <<action, actor>> \in PermissionTable
    /\ Cardinality(TransitionActions \X Actors) = 30
    /\ lc.call.op = "is_allowed_for" =>
          /\ lc.call.ok <=> <<lc.call.action, lc.call.actor>> \in PermissionTable
          /\ lc.status = lc.call.from

\* A Human was asked about Cancel and is allowed; the contract is as it was
C26_Witness ==
    /\ lc.call.op = "is_allowed_for"
    /\ lc.call.action = "Cancel"
    /\ lc.call.actor = "Human"
    /\ lc.call.ok
    /\ lc.status = "Verifying"

\* C27: finish_verification(passed) succeeds only from Verifying, moving to
\* Completed when passed and to Failed otherwise; from every other status it
\* returns a TransitionError and leaves the status unchanged.
C27_FinishVerificationOnlyFromVerifying ==
    lc.call.op = "finish_verification" =>
        /\ lc.call.ok <=> lc.call.from = "Verifying"
        /\ lc.call.ok => lc.status = IF lc.call.passed THEN "Completed" ELSE "Failed"
        /\ ~lc.call.ok => lc.status = lc.call.from

\* C28: cancel() is rejected, the status unchanged, from Verifying, Completed,
\* RolledBack and Cancelled; it succeeds from Pending, Ready, Claimed,
\* Executing and Failed, leaving the status Cancelled and returning an event
\* whose from is the previous status; no call moves a contract from Verifying
\* to Cancelled.
C28_CancelNeverFromVerifying ==
    /\ lc.call.op = "cancel" =>
          /\ lc.call.from \in {"Verifying", "Completed", "RolledBack", "Cancelled"} =>
                ~lc.call.ok /\ lc.call.event = None /\ lc.status = lc.call.from
          /\ lc.call.from \in {"Pending", "Ready", "Claimed", "Executing", "Failed"} =>
                /\ lc.call.ok
                /\ lc.status = "Cancelled"
                /\ lc.call.event = Some([contract_id |-> "c1", from |-> lc.call.from,
                                         to |-> "Cancelled"])
    /\ lc.call.op # "" /\ lc.call.from = "Verifying" => lc.status # "Cancelled"

\* cancel() was called on a Verifying contract, and was rejected
C28_Witness ==
    /\ lc.call.op = "cancel"
    /\ lc.call.from = "Verifying"
    /\ ~lc.call.ok

(***************************************************************************)
(* Contract creation                                                       *)
(***************************************************************************)
\* Thread t stores the contract of a CreateContract request in this step
StoresCreated(t) ==
    /\ Free(t)
    /\ h'[t].req.kind = "CreateContract"
    /\ h'[t].pc = "publish"

\* Thread t answers a CreateContract request in this step
AnswersCreated(t) ==
    /\ h[t].pc = "publish"
    /\ h[t].req.kind = "CreateContract"
    /\ h'[t].pc = "done"

\* The contract a CreateContract request is to create
Created(req) ==
    [id |-> req.id,
     status |-> IF req.blocked_by = << >> THEN "Ready" ELSE "Pending",
     blocked_by |-> req.blocked_by]

Commits(t) ==
    /\ h[t].pc = "record"
    /\ h'[t].pc = "publish"

\* list_events(id) after the step
ListedNext(id) ==
    list_events([contracts |-> contracts', contract_events |-> contract_events'], id)

\* C30: list_events(id) is the sequence of the events of the successful
\* record_transition calls for id in the order they committed: a call that
\* commits appends its event to the list of its contract and to no other
\* list, nothing else changes any list, and a list holds no other contract's
\* event.
C30_ListEventsInCommitOrder ==
    [][/\ \A t \in Threads, id \in Ids :
            Commits(t) =>
               ListedNext(id) = IF id = Unwrap(h[t].event).contract_id
                                THEN Append(list_events(Db, id), Unwrap(h[t].event))
                                ELSE list_events(Db, id)
       /\ (\A t \in Threads : ~Commits(t)) =>
            \A id \in Ids : ListedNext(id) = list_events(Db, id)
       /\ \A id \in Ids : \A i \in DOMAIN ListedNext(id) : ListedNext(id)[i].contract_id = id
      ]_vars

\* Two different transitions of one contract were recorded, and another
\* contract has none
C30_Witness ==
    \E id \in Ids :
        /\ Len(list_events(Db, id)) = 2
        /\ list_events(Db, id)[1] # list_events(Db, id)[2]
        /\ list_events(Db, id)[1].to = list_events(Db, id)[2].from
        /\ \A other \in Ids \ {id} : list_events(Db, other) = << >>

(***************************************************************************)
(* Conflict escalations                                                    *)
(***************************************************************************)
\* No handler is running and every request of the run is still on its thread
AllAnswered ==
    /\ Quiescent
    /\ Cardinality({t \in Threads : h[t].pc = "done"}) = MaxRequests - requests

\* Thread t's ClaimResource request ended in Conflict
Conflicted(t) ==
    /\ h[t].pc = "done"
    /\ h[t].req.kind = "ClaimResource"
    /\ Unwrap(h[t].claim).kind = "Conflict"

\* The daemon event the conflict of thread t is to surface as
EscalationOf(t) ==
    [tag |-> "ResourceConflictEscalated", resource |-> h[t].req.resource,
     requested_by |-> h[t].req.owner,
     held_by |-> Unwrap(Unwrap(h[t].claim).held_by).owner,
     reason |-> "port_range_exhausted"]

Escalations == {i \in DOMAIN history : history[i].kind.tag = "ResourceConflictEscalated"}

\* C31: every ClaimResource request that ended in Conflict has exactly one
\* ResourceConflictEscalated event of its own in the daemon history, with its
\* resource, requester, holder and the reason port_range_exhausted, and the
\* history holds no other escalation; also when the claims ran concurrently
\* or writing the lease file failed.
C31_EveryConflictEscalatedOnce ==
    AllAnswered =>
        /\ Cardinality(Escalations) = Cardinality({t \in Threads : Conflicted(t)})
        /\ \A t \in Threads :
              Conflicted(t) =>
                 Cardinality({i \in Escalations : history[i].kind = EscalationOf(t)})
                    = Cardinality({u \in Threads :
                                     Conflicted(u) /\ EscalationOf(u) = EscalationOf(t)})

(***************************************************************************)
(* Delivery to subscribers                                                 *)
(***************************************************************************)
Listening(ch) ==
    /\ ch \in DOMAIN channels
    /\ channels[ch].alive

Published == history' # history

\* C32: a subscriber whose receiver is alive gets every event published
\* after its subscribe() call once, in cursor order without a gap (its
\* channel starts empty and each publication appends the new event, whose
\* cursor is the next one); a subscriber leaves the subscriber list only in
\* a publication whose send to it fails, and then the event is still put in
\* the history and delivered to the other subscribers.
C32_LiveSubscribersGetEveryEvent ==
    [][/\ \A ch \in BusChannels :
            /\ (ch \notin DOMAIN channels /\ ch \in DOMAIN channels') =>
                  /\ channels'[ch] = [queue |-> << >>, alive |-> TRUE]
                  /\ subscribers' = Append(subscribers, ch)
                  /\ ~Published
            /\ (Listening(ch) /\ Published) =>
                  /\ channels'[ch].queue = Append(channels[ch].queue,
                                                   history'[Len(history')])
                  /\ ch \in Range(subscribers')
            /\ (Listening(ch) /\ ~Published /\ ch \in DOMAIN channels') =>
                  channels'[ch].queue = channels[ch].queue
            /\ (ch \in Range(subscribers) /\ ch \notin Range(subscribers')) =>
                  /\ ~channels[ch].alive
                  /\ Published
       /\ Published =>
            /\ Len(history') = Len(history) + 1
            /\ SubSeq(history', 1, Len(history)) = history
            /\ history'[Len(history')].cursor = next_cursor + 1
            /\ next_cursor' = next_cursor + 1
      ]_vars

\* One receiver was dropped and removed by a failed send; the other, which
\* subscribed after the first event, holds exactly the two events since
C32_Witness ==
    \E gone, ch \in BusChannels :
        /\ gone \in DOMAIN channels
        /\ ~channels[gone].alive
        /\ gone \notin Range(subscribers)
        /\ Listening(ch)
        /\ Len(history) = 3
        /\ channels[ch].queue = SubSeq(history, 2, 3)
        /\ Len(channels[gone].queue) = 1

(***************************************************************************)
(* Attention projections                                                   *)
(***************************************************************************)
\* The ids of the contracts some unresolved decision item refers to
Undecided ==
    {id \in DOMAIN contracts :
        \E i \in DOMAIN decision_items :
            decision_items[i].contract_id = id /\ decision_items[i].resolved = 0}

\* C33: list_by_attention_tier(NeedsDecision) holds each contract that has
\* an unresolved decision item exactly once, whatever the number of its
\* open items, and no contract that has none.
C33_NeedsDecisionIsDeduplicated ==
    LET listed == list_by_attention_tier(Db, "NeedsDecision") IN
    /\ \A id \in Undecided :
          Cardinality({i \in DOMAIN listed : listed[i].id = id}) = 1
    /\ \A i \in DOMAIN listed : listed[i].id \in Undecided
    /\ \A i \in DOMAIN listed : load_contract(Db, listed[i].id) = Some(listed[i])

\* One contract has two open decision items, another stored one has none
C33_Witness ==
    \E id \in Ids :
        /\ Cardinality({i \in DOMAIN decision_items :
                           decision_items[i].contract_id = id}) = 2
        /\ DOMAIN contracts = Ids
        /\ Undecided = {id}
        /\ Len(list_by_attention_tier(Db, "NeedsDecision")) = 1

(***************************************************************************)
(* stead-core contracts                                                    *)
(***************************************************************************)
\* C34: after any sequence of operations on a stead-core Contract,
\* completed_at is set when the status is terminal and None when it is not.
C34_CompletedAtIffTerminal ==
    IF core.contract.status \in TerminalStatuses
    THEN IsSome(core.contract.completed_at)
    ELSE core.contract.completed_at = None

\* C40: every status change made by an operation of the stead-core Contract
\* or by the claim, cancel, run and verify commands follows an allowed edge
\* of the transition matrix; none leaves a terminal status.
C40_CoreChangesFollowEdges ==
    \A i \in 1..(Len(core.call.path) - 1) :
        /\ <<core.call.path[i], core.call.path[i + 1]>> \in AllowedEdges
        /\ core_can_transition_to(core.call.path[i], core.call.path[i + 1])
        /\ core.call.path[i] \notin TerminalStatuses

(***************************************************************************)
(* Concurrent transitions of one contract                                  *)
(***************************************************************************)
\* C35: under any interleaving of TransitionContract handlers, the event log
\* of a contract is a connected path: it starts at a status a contract is
\* created with, each later event starts where the one before ended, and
\* every event is an allowed edge (so two requests moving a Ready contract
\* to Claimed cannot both be logged).
C35_EventLogIsConnectedPath ==
    \A id \in Ids :
        LET events == list_events(Db, id) IN
        /\ events # << >> => events[1].from \in {"Ready", "Pending"}
        /\ \A i \in DOMAIN events : <<events[i].from, events[i].to>> \in AllowedEdges
        /\ \A i \in DOMAIN events : i > 1 => events[i].from = events[i - 1].to

(***************************************************************************)
(* Attention counts under concurrent transitions                           *)
(***************************************************************************)
\* Thread t returns the counts of an AttentionStatus request in this step
ReturnsCounts(t) ==
    /\ h[t].pc = "attention"
    /\ h'[t].pc = "done"

\* anomaly + completed + running + queued of the counts returned
Tiered(counts) == counts[2] + counts[3] + counts[4] + counts[5]

\* C36: the counts an AttentionStatus request returns describe one state of
\* the store: anomaly + completed + running + queued is at most the number
\* of stored contracts and at least the number of those that are not
\* Cancelled, whatever transitions were served meanwhile.
C36_CountsDescribeOneState ==
    [][\A t \in Threads :
          ReturnsCounts(t) =>
             /\ Tiered(h'[t].counts) <= Cardinality(DOMAIN contracts')
             /\ Tiered(h'[t].counts) >=
                   Cardinality({id \in DOMAIN contracts' :
                                   contracts'[id].status # as_db_str("Cancelled")})
      ]_vars

(***************************************************************************)
(* A resource claim whose leases could not be written                      *)
(***************************************************************************)
\* Thread t served the only request made so far, a ClaimResource that
\* returned the storage error of persist_resource_leases
OnlyRequestFailedToPersist(t) ==
    /\ requests = MaxRequests - 1
    /\ h[t].pc = "done"
    /\ h[t].req.kind = "ClaimResource"
    /\ h[t].result = "storage_error"

\* C37: when ClaimResource returns an error because resources.json could
\* not be written, the in-memory leases are those held before the request:
\* after a first request that failed so, the registry holds the leases the
\* daemon was opened with, none.
C37_FailedClaimLeavesLeasesUnchanged ==
    \A t \in Threads :
        OnlyRequestFailedToPersist(t) =>
            export_leases(resources) = export_leases(import_leases(EmptyRegistry, {}))

(***************************************************************************)
(* A resource claim made twice                                             *)
(***************************************************************************)
\* The last call on the registry is a claim and repeats the call before it
RepeatsClaim ==
    /\ rr.call.op = "claim"
    /\ rr.prev.op = "claim"
    /\ rr.call.resource = rr.prev.resource
    /\ rr.call.owner = rr.prev.owner

\* C38: a ResourceRegistry::claim(resource, owner) that repeats the call
\* before it leaves the registry with no more leases than the first call
\* produced: an owner negotiated to another port does not get one more port
\* with each repeat.
C38_RepeatedClaimAddsNoLease ==
    RepeatsClaim =>
        Cardinality(DOMAIN rr.reg.leases) <= Cardinality(DOMAIN rr.call.before.leases)

(***************************************************************************)
(* An endpoint name held by another owner                                  *)
(***************************************************************************)
\* The last call on the endpoint registry is a claim of a name that was
\* leased to an owner other than the caller
ClaimsNameOfAnother ==
    /\ er.call.op = "claim"
    /\ er.call.name \in DOMAIN er.call.before.leases_by_name
    /\ er.call.before.leases_by_name[er.call.name].owner # er.call.owner

\* C39: EndpointRegistry::claim of a name leased to a different owner
\* returns Conflict with held_by the existing lease of that name, leaves the
\* lease map as it was and queues no RangeExhausted event, whatever port
\* was requested and whatever ports are free.
C39_NameConflictChangesNothing ==
    ClaimsNameOfAnother =>
        /\ er.call.result.kind = "Conflict"
        /\ er.call.result.held_by = Some(er.call.before.leases_by_name[er.call.name])
        /\ er.reg.leases_by_name = er.call.before.leases_by_name
        /\ er.reg.events = er.call.before.events

\* a name of another owner was claimed with a requested port that is free
C39_Witness ==
    /\ ClaimsNameOfAnother
    /\ IsSome(er.call.requested_port)
    /\ is_port_free(er.call.before, Unwrap(er.call.requested_port))
    /\ Unwrap(er.call.requested_port) \in EndpointStart..EndpointEnd
    /\ er.call.result.kind = "Conflict"

====
